---- MODULE Spec2Model ----
(***************************************************************************)
(* Authentication and session registry of jwt-pizza-service.               *)
(*                                                                         *)
(* The persistent tables user, userRole and auth, the DB methods that      *)
(* read and write them (database.js), and the auth routes that call them   *)
(* (register, login, logout, update) as concurrent requests that           *)
(* interleave at their database statements.                                *)
(***************************************************************************)
EXTENDS Bags, FiniteSets, Naturals, Sequences, TLC

VARIABLES
    user,       \* table user: sequence of rows, row i has id i
    userRole,   \* table userRole: sequence of rows in insertion order
    auth,       \* table auth: set of rows [token, userId], token = signature
    clock,      \* wall clock in seconds (the iat of a token signed now)
    reqs,       \* bag of the requests in flight (between two statements)
    resp,       \* the response sent by the last step, NoResp if it sent none
    revoked,    \* the token of the last successful logout, until it is
                \* activated again (history, read by no action)
    call,       \* the last direct call of a DB method and its result
    franchise,  \* table franchise: sequence of rows in insertion order
    store,      \* table store: sequence of rows in insertion order
    autoIncrement, \* the next AUTO_INCREMENT id of tables franchise and store
    pool,       \* the connection pool: holders by phase and the wait queue
    boot,       \* initializeDatabase: its position, the promise
                \* this.initialized, and the calls that wait for it
    metrics,    \* the auth-attempt counters, the responses not finished
                \* yet and the reports built so far
    menu,       \* table menu: sequence of rows, row i has id i
    dinerOrder, \* table dinerOrder: sequence of rows, row i has id i
    orderItem,  \* table orderItem: sequence of rows in insertion order
    factory     \* the requests sent to the pizza factory, in order

\* the tables and the outbox of the order routes
orders == <<menu, dinerOrder, orderItem, factory>>

vars == <<user, userRole, auth, clock, reqs, resp, revoked, call,
          franchise, store, autoIncrement, pool, boot, metrics, orders>>

----------------------------------------------------------------------------
(* Bounds of the model *)

MaxReq == 2         \* requests in flight at once
MaxUsers == 2       \* rows of table user
MaxClock == 1       \* seconds the clock may advance
MaxSessions == 2    \* rows of table auth
MaxStatements == 2  \* statements of dbModel.tableCreateStatements
MaxOps == 11        \* database operations running at the same time
MaxStores == 1      \* rows ever inserted into table store
MaxFranchises == 1  \* rows of table franchise
MaxMenu == 1        \* rows of table menu
MaxOrders == 1      \* rows of table dinerOrder
MaxRequests == 3    \* requests seen by metricTracker
MaxReports == 2     \* ticks of the report interval

(* Inputs *)

Undefined == "undefined"                    \* a body field that is absent
Emails == {"a@jwt.com", "d@test.com"}
AdminPassword == "admin"
DinerPassword == "a"
Passwords == {AdminPassword, DinerPassword}
DinerName == "pizza diner"
AdminName == "ChangYongMingZi"

Role == [Diner |-> "diner", Franchisee |-> "franchisee", Admin |-> "admin"]

----------------------------------------------------------------------------
(* Credential store: bcrypt.hash and bcrypt.compare *)

bcryptHash(password) == "$2b$10$" \o password

bcryptCompare(password, hash) == hash = bcryptHash(password)

----------------------------------------------------------------------------
(* User views: what addUser and getUser return.  keys is the order of the  *)
(* keys that JSON.stringify keeps (password: undefined is dropped).        *)

AddUserKeys == <<"name", "email", "roles", "id">>
GetUserKeys == <<"id", "name", "email", "roles">>

NoView == [keys |-> <<>>, id |-> 0, name |-> "", email |-> "", roles |-> <<>>,
           password |-> Undefined]

\* the Franchisee assignments a user can hold: one per franchise, in the
\* order the franchises were created
FranchiseeRoles ==
    UNION {{[i \in 1..n |-> [role |-> Role.Franchisee, objectId |-> ids[i]]] :
                ids \in {q \in [1..n -> 1..MaxFranchises] :
                            \A a, b \in 1..n : a < b => q[a] < q[b]}} :
           n \in 0..MaxFranchises}

RoleSets ==
    {base \o scoped :
        base \in {<<>>,
                  <<[role |-> Role.Diner, objectId |-> 0]>>,
                  <<[role |-> Role.Admin, objectId |-> 0]>>},
        scoped \in FranchiseeRoles}

Views == [keys : {AddUserKeys, GetUserKeys}, id : 1..MaxUsers,
          name : {DinerName, AdminName}, email : Emails, roles : RoleSets]

----------------------------------------------------------------------------
(* Token issuer: jwt.sign(user, secret) and jwt.verify(token, secret).     *)
(* A token is the sequence of its dot-delimited segments.                  *)

JwtHeader == "eyJhbGciOiJIUzI1NiJ9"

NoToken == <<>>

NoUser == [keys |-> <<>>, id |-> 0, name |-> "", email |-> "", roles |-> <<>>, iat |-> 0]

PayloadOf(view, iat) ==
    [keys |-> view.keys, id |-> view.id, name |-> view.name,
     email |-> view.email, roles |-> view.roles, iat |-> iat]

Payloads == {PayloadOf(v, t) : v \in Views, t \in 0..MaxClock}

\* the payload segment: the JSON text of the payload, keys in their order
PayloadSegments == [p \in Payloads |-> ToString(p)]

\* faulty variant: the encoding loses the role set
Base64Url_DropRoles(payload) ==
    PayloadSegments[[payload EXCEPT !.roles = <<>>]]

Base64Url(payload) == PayloadSegments[payload]

Hmac(header, payloadSegment) == "hs256(" \o header \o "." \o payloadSegment \o ")"

jwtSign(view, iat) ==
    LET seg == Base64Url(PayloadOf(view, iat))
    IN  <<JwtHeader, seg, Hmac(JwtHeader, seg)>>

\* the payload a segment decodes to
PayloadOfSegment ==
    [seg \in {PayloadSegments[p] : p \in Payloads} |->
        CHOOSE p \in Payloads : PayloadSegments[p] = seg]

jwtVerifies(token) ==
    /\ Len(token) = 3
    /\ token[1] = JwtHeader
    /\ token[3] = Hmac(token[1], token[2])
    /\ token[2] \in DOMAIN PayloadOfSegment

jwtVerify(token) == PayloadOfSegment[token[2]]

----------------------------------------------------------------------------
(* Session registry: DB.getTokenSignature, isLoggedIn, loginUser,          *)
(* logoutUser                                                              *)

\* faulty variant: the wrong segment of the token (index off by two)
getTokenSignature_First(token) == IF Len(token) > 2 THEN token[1] ELSE ""

getTokenSignature(token) == IF Len(token) > 2 THEN token[3] ELSE ""

\* faulty variant: authResult.length >= 0, true of every token
isLoggedIn_Always(token) == TRUE

isLoggedIn(token) ==
    \E row \in auth : row.token = getTokenSignature(token)

\* auth.token is the key of the table: a second row with the same token is
\* refused by the INSERT (ER_DUP_ENTRY)
AuthDupEntry(sig) == \E row \in auth : row.token = sig

loginUserThrows(userId, token) == AuthDupEntry(getTokenSignature(token))

\* faulty variant: the row is written under the first segment, not the signature
loginUser_FirstSegment(userId, token) ==
    IF loginUserThrows(userId, token)
    THEN auth
    ELSE auth \cup {[token |-> token[1], userId |-> userId]}

\* faulty variant: one session per user, the new row replaces the user's rows
loginUser_SingleSession(userId, token) ==
    IF loginUserThrows(userId, token)
    THEN auth
    ELSE {row \in auth : row.userId # userId}
            \cup {[token |-> getTokenSignature(token), userId |-> userId]}

loginUser(userId, token) ==
    IF loginUserThrows(userId, token)
    THEN auth
    ELSE auth \cup {[token |-> getTokenSignature(token), userId |-> userId]}

\* faulty variant: DELETE compares the whole token string, not its signature
logoutUser_WholeToken(token) ==
    {row \in auth : ~(Len(token) = 1 /\ row.token = token[1])}

\* faulty variant: DELETE ... WHERE userId = the owner of the token
logoutUser_ByUser(token) ==
    {row \in auth :
        \A own \in auth : own.token = getTokenSignature(token)
                             => row.userId # own.userId}

logoutUser(token) ==
    {row \in auth : row.token # getTokenSignature(token)}

----------------------------------------------------------------------------
(* Users: DB.addUser, DB.getUser, DB.updateUser *)

\* faulty variant: no constraint on user.email
UserDupEntry_Never(email, exceptId) == FALSE

\* user.email is unique: an INSERT or UPDATE that would repeat it is refused
UserDupEntry(email, exceptId) ==
    \E i \in 1..Len(user) : user[i].email = email /\ i # exceptId

RolesOf(userId) ==
    LET F[i \in 0..Len(userRole)] ==
            IF i = 0 THEN <<>>
            ELSE IF userRole[i].userId = userId
                 THEN Append(F[i-1], [role |-> userRole[i].role,
                                      objectId |-> userRole[i].objectId])
                 ELSE F[i-1]
    IN  F[Len(userRole)]

\* faulty variant: the password is not compared
getUserFoundIn_NoPassword(rows, email, password) ==
    \E i \in 1..Len(rows) : rows[i].email = email

\* getUser on the rows of table user: the first row with the email, if its
\* password matches
getUserFoundIn(rows, email, password) ==
    /\ \E i \in 1..Len(rows) : rows[i].email = email
    /\ LET i == CHOOSE j \in 1..Len(rows) :
                    /\ rows[j].email = email
                    /\ \A k \in 1..(j-1) : rows[k].email # email
       IN  bcryptCompare(password, rows[i].password)

getUserIn(rows, email, password) ==
    LET i == CHOOSE j \in 1..Len(rows) :
                    /\ rows[j].email = email
                    /\ \A k \in 1..(j-1) : rows[k].email # email
    IN  [keys |-> GetUserKeys, id |-> rows[i].id, name |-> rows[i].name,
         email |-> rows[i].email, roles |-> RolesOf(rows[i].id),
         password |-> Undefined]

getUserFound(email, password) == getUserFoundIn(user, email, password)

getUser(email, password) == getUserIn(user, email, password)

\* getID: the id of the first row of a table whose column key has the value;
\* it throws 'No ID found' when there is none
getIDFound(rows, key, value) == \E i \in 1..Len(rows) : rows[i][key] = value

getID(rows, key, value) ==
    LET i == CHOOSE j \in 1..Len(rows) :
                    /\ rows[j][key] = value
                    /\ \A k \in 1..(j-1) : rows[k][key] # value
    IN  rows[i].id

\* addUser: INSERT the user row, then one userRole row per role
addUserThrows(u) == UserDupEntry(u.email, 0)

\* the first role whose franchise getID does not find (0: none): the loop
\* over the roles stops there with the error of getID
addUserFailsAt(u) ==
    LET bad == {i \in 1..Len(u.roles) :
                    /\ u.roles[i].role = Role.Franchisee
                    /\ ~getIDFound(franchise, "name", u.roles[i].object)}
    IN  IF bad = {} THEN 0
        ELSE CHOOSE i \in bad : \A j \in bad : i <= j

addUserRolesThrow(u) == addUserFailsAt(u) # 0

addUserRows(u) ==
    Append(user, [id |-> Len(user) + 1, name |-> u.name, email |-> u.email,
                  password |-> bcryptHash(u.password)])

\* faulty variant: no userRole row is written
addUserRoles_None(u) == userRole

\* the userRole rows written before the loop ends or a getID throws
addUserRoles(u) ==
    LET userId == Len(user) + 1
        last == IF addUserFailsAt(u) = 0 THEN Len(u.roles)
                ELSE addUserFailsAt(u) - 1
        F[i \in 0..last] ==
            IF i = 0 THEN userRole
            ELSE Append(F[i-1],
                    [userId |-> userId, role |-> u.roles[i].role,
                     objectId |->
                        IF u.roles[i].role = Role.Franchisee
                        THEN getID(franchise, "name", u.roles[i].object)
                        ELSE 0])
    IN  F[last]

\* faulty variant: the view keeps the password of the request
addUser_KeepPassword(u) ==
    [keys |-> AddUserKeys, id |-> Len(user) + 1, name |-> u.name,
     email |-> u.email, roles |-> u.roles, password |-> u.password]

\* { ...user, id: userId, password: undefined }
addUser(u) ==
    [keys |-> AddUserKeys, id |-> Len(user) + 1, name |-> u.name,
     email |-> u.email, roles |-> u.roles, password |-> Undefined]

\* addMenuItem: INSERT the item, return it with its id
addMenuItemRows(item) ==
    Append(menu, [id |-> Len(menu) + 1, title |-> item.title,
                  description |-> item.description, image |-> item.image,
                  price |-> item.price])

getMenu == menu

\* addDinerOrder: INSERT the order row, then for every item getID of its
\* menu row and INSERT the item; getID throws when the menu id is unknown
addDinerOrderFailsAt(order) ==
    LET bad == {i \in 1..Len(order.items) :
                    ~getIDFound(menu, "id", order.items[i].menuId)}
    IN  IF bad = {} THEN 0
        ELSE CHOOSE i \in bad : \A j \in bad : i <= j

addDinerOrderThrows(order) == addDinerOrderFailsAt(order) # 0

\* faulty variant: the order row is not written
addDinerOrderRows_None(u, order) == dinerOrder

addDinerOrderRows(u, order) ==
    Append(dinerOrder, [id |-> Len(dinerOrder) + 1, dinerId |-> u.id,
                        franchiseId |-> order.franchiseId,
                        storeId |-> order.storeId])

addDinerOrderItems(order) ==
    LET last == IF addDinerOrderFailsAt(order) = 0 THEN Len(order.items)
                ELSE addDinerOrderFailsAt(order) - 1
        F[i \in 0..last] ==
            IF i = 0 THEN orderItem
            ELSE Append(F[i-1],
                    [orderId |-> Len(dinerOrder) + 1,
                     menuId |-> getID(menu, "id", order.items[i].menuId),
                     description |-> order.items[i].description,
                     price |-> order.items[i].price])
    IN  F[last]

addDinerOrder(u, order) ==
    [franchiseId |-> order.franchiseId, storeId |-> order.storeId,
     items |-> order.items, id |-> Len(dinerOrder) + 1]

\* getOrders: the orders of the user, each with its items
getOrders(u) ==
    LET mine == SelectSeq(dinerOrder, LAMBDA o : o.dinerId = u.id)
    IN  [dinerId |-> u.id,
         orders |-> [i \in 1..Len(mine) |->
                       [id |-> mine[i].id, franchiseId |-> mine[i].franchiseId,
                        storeId |-> mine[i].storeId,
                        items |-> SelectSeq(orderItem,
                                    LAMBDA it : it.orderId = mine[i].id)]],
         page |-> 1]

\* createFranchise: look up every admin by email (404 when one is unknown),
\* INSERT the franchise, then one Franchisee row per admin
createFranchiseThrows(f) ==
    \E a \in 1..Len(f.admins) : ~getIDFound(user, "email", f.admins[a])

createFranchiseRows(f) ==
    Append(franchise, [id |-> autoIncrement.franchise, name |-> f.name])

createFranchiseRoles(f) ==
    LET F[i \in 0..Len(f.admins)] ==
            IF i = 0 THEN userRole
            ELSE Append(F[i-1],
                    [userId |-> getID(user, "email", f.admins[i]),
                     role |-> Role.Franchisee,
                     objectId |-> autoIncrement.franchise])
    IN  F[Len(f.admins)]

\* updateUser, first half: the UPDATE statement (none when both are absent)
updateUserThrows(userId, email, password) ==
    email # Undefined /\ UserDupEntry(email, userId)

updateUserRows(userId, email, password) ==
    [i \in 1..Len(user) |->
        IF user[i].id # userId THEN user[i]
        ELSE [user[i] EXCEPT
                !.password = IF password # Undefined
                             THEN bcryptHash(password) ELSE @,
                !.email = IF email # Undefined THEN email ELSE @]]

\* faulty variant: the UPDATE also drops the sessions of the user
updateUserAuth_Revoke(userId) == {row \in auth : row.userId # userId}

\* updateUser runs no statement on table auth
updateUserAuth(userId) == auth

\* updateUser, second half: return this.getUser(email, password), on the
\* rows the UPDATE left.  An undefined email is refused as a bind parameter
\* and an undefined password is refused by bcrypt.compare once a row was
\* found: both throw.
updateGetUserThrows(rows, email, password) ==
    \/ email = Undefined
    \/ /\ password = Undefined
       /\ \E i \in 1..Len(rows) : rows[i].email = email

updateUserResult(r, rows) ==
    IF updateGetUserThrows(rows, r.email, r.password)
    THEN [r EXCEPT !.status = 500, !.message = "undefined argument"]
    ELSE IF getUserFoundIn(rows, r.email, r.password)
    THEN [r EXCEPT !.status = 200,
                   !.view = getUserIn(rows, r.email, r.password)]
    ELSE [r EXCEPT !.status = 404, !.message = "unknown user"]

----------------------------------------------------------------------------
(* Authorization guard: setAuthUser, authenticateToken, isRole *)

setAuthUser(token) ==
    IF token # NoToken /\ isLoggedIn(token) /\ jwtVerifies(token)
    THEN jwtVerify(token)
    ELSE NoUser

\* faulty variant: every caller passes the role test
isRole_Any(u, role) == TRUE

\* faulty variant: the route goes on without a caller
authenticateToken_Pass(u) == TRUE

\* authenticateToken: a request without a caller is answered 401
authenticateToken(u) == u # NoUser

\* faulty variant: only an assignment without a scope object counts
isRole_Scoped(u, role) ==
    \E i \in 1..Len(u.roles) :
        u.roles[i].role = role /\ u.roles[i].objectId = 0

isRole(u, role) == \E i \in 1..Len(u.roles) : u.roles[i].role = role

----------------------------------------------------------------------------
(* Franchises and stores *)

\* the value createFranchise returns: the franchise with its id and with
\* the id and name of every admin
createFranchiseResult(f) ==
    [id |-> autoIncrement.franchise, name |-> f.name,
     admins |-> [i \in 1..Len(f.admins) |->
                    [email |-> f.admins[i],
                     id |-> getID(user, "email", f.admins[i]),
                     name |-> user[CHOOSE k \in 1..Len(user) :
                                     user[k].email = f.admins[i]].name]]]

\* deleteFranchise, one transaction: DELETE FROM store WHERE franchiseId,
\* DELETE FROM userRole WHERE objectId, DELETE FROM franchise WHERE id
deleteFranchiseStores(franchiseId) ==
    SelectSeq(store, LAMBDA s : s.franchiseId # franchiseId)

deleteFranchiseRoles(franchiseId) ==
    SelectSeq(userRole, LAMBDA ur : ur.objectId # franchiseId)

deleteFranchiseRows(franchiseId) ==
    SelectSeq(franchise, LAMBDA f : f.id # franchiseId)

\* the three tables as the statements of deleteFranchise leave them when
\* statement failsAt throws (1..3 the DELETEs, 4 the commit, 0 none throws)
deleteFranchiseAt(franchiseId, failsAt) ==
    [store |-> IF failsAt = 1 THEN store
               ELSE deleteFranchiseStores(franchiseId),
     userRole |-> IF failsAt \in {1, 2} THEN userRole
                  ELSE deleteFranchiseRoles(franchiseId),
     franchise |-> IF failsAt \in {1, 2, 3} THEN franchise
                   ELSE deleteFranchiseRows(franchiseId)]

\* faulty variant: the statements that ran stay applied
rollback_None(before, partial) == partial

\* catch (error) { await connection.rollback(); throw ... 500 }
rollback(before, partial) == before

deleteFranchise(franchiseId, failsAt) ==
    IF failsAt = 0
    THEN deleteFranchiseAt(franchiseId, 0)
    ELSE rollback([store |-> store, userRole |-> userRole,
                   franchise |-> franchise],
                  deleteFranchiseAt(franchiseId, failsAt))

\* SUM(oi.price) over the items of the orders placed at a store
RECURSIVE SumPrices(_)
SumPrices(items) ==
    IF items = <<>> THEN 0 ELSE Head(items).price + SumPrices(Tail(items))

totalRevenue(storeId) ==
    SumPrices(SelectSeq(orderItem, LAMBDA oi :
        \E k \in 1..Len(dinerOrder) :
            dinerOrder[k].id = oi.orderId /\ dinerOrder[k].storeId = storeId))

\* getFranchise: the admins (userRole JOIN user on the Franchisee rows of
\* the franchise) and the stores with their revenue
\* faulty variant: every user counts as an admin of the franchise
getFranchiseAdmins_All(franchiseId) ==
    [i \in 1..Len(user) |->
        [id |-> user[i].id, name |-> user[i].name, email |-> user[i].email]]

getFranchiseAdmins(franchiseId) ==
    LET rows == SelectSeq(userRole, LAMBDA ur :
                    ur.objectId = franchiseId /\ ur.role = Role.Franchisee
                    /\ \E k \in 1..Len(user) : user[k].id = ur.userId)
    IN  [i \in 1..Len(rows) |->
            LET u == user[CHOOSE k \in 1..Len(user) :
                            user[k].id = rows[i].userId]
            IN  [id |-> u.id, name |-> u.name, email |-> u.email]]

getFranchiseStores(franchiseId) ==
    LET rows == SelectSeq(store, LAMBDA s : s.franchiseId = franchiseId)
    IN  [i \in 1..Len(rows) |->
            [id |-> rows[i].id, name |-> rows[i].name,
             totalRevenue |-> totalRevenue(rows[i].id)]]

getFranchise(f) ==
    [id |-> f.id, name |-> f.name, admins |-> getFranchiseAdmins(f.id),
     stores |-> getFranchiseStores(f.id)]

\* the stores of a franchise as a caller without the Admin role sees them
storesOf(franchiseId) ==
    LET rows == SelectSeq(store, LAMBDA s : s.franchiseId = franchiseId)
    IN  [i \in 1..Len(rows) |-> [id |-> rows[i].id, name |-> rows[i].name]]

\* faulty variant: every caller gets the detail
getFranchises_Detail(authUser) ==
    [i \in 1..Len(franchise) |-> getFranchise(franchise[i])]

\* getFranchises(authUser): authUser?.isRole(Role.Admin) decides, per
\* franchise, between getFranchise and the plain list of stores
getFranchises(authUser) ==
    [i \in 1..Len(franchise) |->
        IF authUser # NoUser /\ isRole(authUser, Role.Admin)
        THEN getFranchise(franchise[i])
        ELSE [id |-> franchise[i].id, name |-> franchise[i].name,
              stores |-> storesOf(franchise[i].id)]]

\* faulty variant: every franchise is listed, whoever its admins are
getUserFranchises_All(userId) ==
    [i \in 1..Len(franchise) |-> getFranchise(franchise[i])]

\* getUserFranchises(userId): the franchises the user has a Franchisee row
\* for, each with its detail; [] when there is none
getUserFranchises(userId) ==
    LET franchiseIds == {userRole[k].objectId : k \in
                            {j \in 1..Len(userRole) :
                                /\ userRole[j].role = Role.Franchisee
                                /\ userRole[j].userId = userId}}
        rows == SelectSeq(franchise, LAMBDA f : f.id \in franchiseIds)
    IN  [i \in 1..Len(rows) |-> getFranchise(rows[i])]

\* createStore: INSERT INTO store (franchiseId, name)
createStoreResult(franchiseId, s) ==
    [id |-> autoIncrement.store, franchiseId |-> franchiseId,
     name |-> s.name]

createStoreRows(franchiseId, s) ==
    Append(store, createStoreResult(franchiseId, s))

\* deleteStore: DELETE FROM store WHERE franchiseId=? AND id=?
deleteStoreRows(franchiseId, storeId) ==
    SelectSeq(store, LAMBDA s :
        ~(s.franchiseId = franchiseId /\ s.id = storeId))

----------------------------------------------------------------------------
(* Requests *)

Unauthorized == "unauthorized"
ErDupEntry == "Duplicate entry"
UnknownUser == "unknown user"

NoBody == <<>>

Req(route, token, name, email, password, userId) ==
    [route |-> route, token |-> token, name |-> name, email |-> email,
     password |-> password, userId |-> userId, user |-> NoUser,
     view |-> NoView, status |-> 0, message |-> "", out |-> NoToken,
     body |-> NoBody]

NoResp == Req("none", NoToken, Undefined, Undefined, Undefined, 0)

Respond(r, status, message) ==
    [r EXCEPT !.status = status, !.message = message]

InFlight == BagToSet(reqs)

\* the tokens a client may present: every token the service signs for a
\* current user up to now, every token that is active, and forgeries
AllTokens == {jwtSign(v, t) : v \in Views, t \in 0..MaxClock}

TokenOfSignature ==
    [sig \in {t[3] : t \in AllTokens} |->
        CHOOSE t \in AllTokens : t[3] = sig]

ActiveTokens ==
    {TokenOfSignature[row.token] :
        row \in {a \in auth : a.token \in DOMAIN TokenOfSignature}}

UserTokens ==
    {jwtSign([keys |-> k, id |-> user[i].id, name |-> user[i].name,
              email |-> user[i].email, roles |-> RolesOf(user[i].id)], t) :
        k \in {AddUserKeys, GetUserKeys}, i \in 1..Len(user), t \in 0..clock}

ForgedTokens ==
    {<<"abc">>, <<"a", "b">>} \cup {<<t[1], "e30", t[3]>> : t \in ActiveTokens}

BearerTokens == UserTokens \cup ActiveTokens \cup ForgedTokens

\* what a step that removes or adds the signature of token does to revoked
Revoke(token) == token

Activate(token) ==
    IF getTokenSignature(revoked) = getTokenSignature(token) /\ revoked # NoToken
    THEN NoToken ELSE revoked

----------------------------------------------------------------------------
(* State after construction: a fresh database holds the default admin *)

NoArg == <<>>

\* initializeDatabase has ended on a database that did not exist and the
\* default admin is stored
Booted == [pc |-> "resolved", initialized |-> "resolved", dbExists |-> FALSE,
           failed |-> FALSE, statement |-> 0, admin |-> "done",
           waiting |-> 0]

\* the module state of metrics.js after it is loaded: no request was seen
\* and no report was built. pending holds the responses not finished yet,
\* each with the number of auth-attempt listeners registered on it; finished
\* counts the login and logout requests whose response finished, by outcome
\* (it is not program state); reports holds the buffers built by the ticks
NoMetrics == [totalRequests |-> 0,
              methodCounts |-> [GET |-> 0, POST |-> 0, PUT |-> 0,
                                DELETE |-> 0],
              activeUsers |-> 0,
              succesfulAuthAttempts |-> 0, unsuccessfulAuthAttempts |-> 0,
              pending |-> <<>>, finished |-> <<0, 0>>, reports |-> <<>>]

\* the pool before any connection is taken
NoHolders == [queue |-> <<>>, simple |-> 0, outer |-> 0, inner |-> 0,
              done |-> 0, taken |-> 0, last |-> "none"]

NoCall == [op |-> "none", token |-> NoToken, userId |-> 0, threw |-> FALSE,
           result |-> FALSE, arg |-> NoArg]

Init ==
    /\ user = <<[id |-> 1, name |-> AdminName, email |-> "a@jwt.com",
                 password |-> bcryptHash(AdminPassword)]>>
    /\ userRole = <<[userId |-> 1, role |-> Role.Admin, objectId |-> 0]>>
    /\ auth = {}
    /\ clock = 0
    /\ reqs = EmptyBag
    /\ resp = NoResp
    /\ revoked = NoToken
    /\ call = NoCall
    /\ franchise = <<>>
    /\ store = <<>>
    /\ autoIncrement = [franchise |-> 1, store |-> 1]
    /\ pool = NoHolders
    /\ boot = Booted
    /\ metrics = NoMetrics
    /\ menu = <<>>
    /\ dinerOrder = <<>>
    /\ orderItem = <<>>
    /\ factory = <<>>

\* room for one more row of auth, counting the logins in flight
SessionRoom ==
    Cardinality(auth)
      + BagCardinality([r \in {q \in InFlight : q.route = "login"} |-> reqs[r]])
      < MaxSessions

----------------------------------------------------------------------------
(* POST /api/auth: register.  Missing fields are refused first; then       *)
(* DB.addUser with the Diner role, then setAuth.                           *)

\* faulty variant: the password is not required
RegisterInvalid_PasswordOptional(name, email, password) ==
    Undefined \in {name, email}

RegisterInvalid(name, email, password) ==
    Undefined \in {name, email, password}

Register(name, email, password) ==
    LET r == Req("register", NoToken, name, email, password, 0)
        u == [name |-> name, email |-> email, password |-> password,
              roles |-> <<[role |-> Role.Diner, objectId |-> 0]>>]
        token == jwtSign(addUser(u), clock)
    IN  /\ Len(user) < MaxUsers
        /\ SessionRoom
        /\ IF RegisterInvalid(name, email, password)
           THEN /\ resp' = Respond(r, 400, "name, email, and password are required")
                /\ UNCHANGED <<user, userRole, auth, revoked>>
           ELSE IF addUserThrows(u)
           THEN /\ resp' = Respond(r, 500, ErDupEntry)
                /\ UNCHANGED <<user, userRole, auth, revoked>>
           ELSE /\ user' = addUserRows(u)
                /\ userRole' = addUserRoles(u)
                /\ auth' = loginUser(addUser(u).id, token)
                /\ IF loginUserThrows(addUser(u).id, token)
                   THEN /\ resp' = [Respond(r, 500, ErDupEntry)
                                      EXCEPT !.view = addUser(u)]
                        /\ UNCHANGED revoked
                   ELSE /\ resp' = [Respond(r, 200, "") EXCEPT
                                      !.view = addUser(u), !.out = token]
                        /\ revoked' = Activate(token)
        /\ UNCHANGED <<clock, reqs, call, franchise, store, autoIncrement, pool, boot, metrics, orders>>

(* PUT /api/auth: login.  DB.getUser, then setAuth. *)

Login(email, password) ==
    LET r == Req("login", NoToken, Undefined, email, password, 0)
    IN  /\ BagCardinality(reqs) < MaxReq
        /\ SessionRoom
        /\ IF getUserFound(email, password)
           THEN /\ reqs' = reqs (+) SetToBag({
                      [r EXCEPT !.view = getUser(email, password)]})
                /\ resp' = NoResp
           ELSE /\ resp' = Respond(r, 404, UnknownUser)
                /\ UNCHANGED reqs
        /\ UNCHANGED <<user, userRole, auth, clock, revoked, call, franchise, store, autoIncrement, pool, boot, metrics, orders>>

\* setAuth(user): sign the view now, then DB.loginUser(user.id, token)
LoginSetAuth(r) ==
    LET token == jwtSign(r.view, clock)
    IN  /\ r.route = "login"
        /\ reqs' = reqs (-) SetToBag({r})
        /\ auth' = loginUser(r.view.id, token)
        /\ IF loginUserThrows(r.view.id, token)
           THEN /\ resp' = Respond(r, 500, ErDupEntry)
                /\ UNCHANGED revoked
           ELSE /\ resp' = [Respond(r, 200, "") EXCEPT !.out = token]
                /\ revoked' = Activate(token)
        /\ UNCHANGED <<user, userRole, clock, call, franchise, store, autoIncrement, pool, boot, metrics, orders>>

(* DELETE /api/auth: logout.  The guard, then clearAuth: DB.logoutUser. *)

Logout(token) ==
    LET r == [Req("logout", token, Undefined, Undefined, Undefined, 0)
                EXCEPT !.user = setAuthUser(token)]
    IN  /\ BagCardinality(reqs) < MaxReq
        /\ IF r.user = NoUser
           THEN /\ resp' = Respond(r, 401, Unauthorized)
                /\ UNCHANGED reqs
           ELSE /\ reqs' = reqs (+) SetToBag({r})
                /\ resp' = NoResp
        /\ UNCHANGED <<user, userRole, auth, clock, revoked, call, franchise, store, autoIncrement, pool, boot, metrics, orders>>

LogoutClearAuth(r) ==
    /\ r.route = "logout"
    /\ reqs' = reqs (-) SetToBag({r})
    /\ auth' = logoutUser(r.token)
    /\ resp' = Respond(r, 200, "logout successful")
    /\ revoked' = Revoke(r.token)
    /\ UNCHANGED <<user, userRole, clock, call, franchise, store, autoIncrement, pool, boot, metrics, orders>>

(* PUT /api/auth/:userId: update.  authenticateToken refuses a request    *)
(* without a caller; else self or Admin, then DB.updateUser: the UPDATE    *)
(* statement and getUser(email, password).                                 *)

UpdateUnauthorized(token) ==
    LET r == Req("update", token, Undefined, Undefined, Undefined, 0)
    IN  /\ setAuthUser(token) = NoUser
        /\ resp' = Respond(r, 401, Unauthorized)
        /\ UNCHANGED <<user, userRole, auth, clock, reqs, revoked, call, franchise, store, autoIncrement, pool, boot, metrics, orders>>

Update(token, userId, email, password) ==
    LET r == [Req("update", token, Undefined, email, password, userId)
                EXCEPT !.user = setAuthUser(token)]
    IN  /\ r.user # NoUser
        /\ IF r.user.id # userId /\ ~isRole(r.user, Role.Admin)
           THEN /\ resp' = Respond(r, 403, Unauthorized)
                /\ UNCHANGED <<user, auth>>
           ELSE IF updateUserThrows(userId, email, password)
           THEN /\ resp' = Respond(r, 500, ErDupEntry)
                /\ UNCHANGED <<user, auth>>
           ELSE /\ user' = updateUserRows(userId, email, password)
                /\ auth' = updateUserAuth(userId)
                /\ resp' = updateUserResult(r,
                              updateUserRows(userId, email, password))
        /\ UNCHANGED <<userRole, clock, reqs, revoked, call, franchise, store, autoIncrement, pool, boot, metrics, orders>>

(* GET /api/order: the orders of the caller *)

GetOrders(token) ==
    LET r == [Req("getOrders", token, Undefined, Undefined, Undefined, 0)
                EXCEPT !.user = setAuthUser(token)]
    IN  /\ IF ~authenticateToken(r.user)
           THEN resp' = Respond(r, 401, Unauthorized)
           ELSE resp' = [Respond(r, 200, "") EXCEPT !.body = getOrders(r.user)]
        /\ UNCHANGED <<user, userRole, auth, clock, reqs, revoked, call,
                       franchise, store, autoIncrement, pool, boot, metrics, orders>>

(* PUT /api/order/menu: an Admin adds a menu item and gets the menu *)

AddMenuItem(token, item) ==
    LET r == [Req("addMenuItem", token, Undefined, Undefined, Undefined, 0)
                EXCEPT !.user = setAuthUser(token)]
    IN  /\ Len(menu) < MaxMenu
        /\ IF ~authenticateToken(r.user)
           THEN /\ resp' = Respond(r, 401, Unauthorized)
                /\ UNCHANGED menu
           ELSE IF ~isRole(r.user, Role.Admin)
           THEN /\ resp' = Respond(r, 403, "unable to add menu item")
                /\ UNCHANGED menu
           ELSE /\ menu' = addMenuItemRows(item)
                /\ resp' = [Respond(r, 200, "") EXCEPT
                                !.body = addMenuItemRows(item)]
        /\ UNCHANGED <<user, userRole, auth, clock, reqs, revoked, call,
                       franchise, store, autoIncrement, pool, boot, metrics, dinerOrder, orderItem, factory>>

(* POST /api/order: DB.addDinerOrder, then the order is sent to the        *)
(* factory and the answer of the factory decides the response.             *)

CreateOrder(token, order) ==
    LET r == [Req("createOrder", token, Undefined, Undefined, Undefined, 0)
                EXCEPT !.user = setAuthUser(token)]
    IN  /\ Len(dinerOrder) < MaxOrders
        /\ IF ~authenticateToken(r.user)
           THEN /\ resp' = Respond(r, 401, Unauthorized)
                /\ UNCHANGED <<reqs, dinerOrder, orderItem>>
           ELSE /\ dinerOrder' = addDinerOrderRows(r.user, order)
                /\ orderItem' = addDinerOrderItems(order)
                /\ IF addDinerOrderThrows(order)
                   THEN /\ resp' = Respond(r, 500, "No ID found")
                        /\ UNCHANGED reqs
                   ELSE /\ reqs' = reqs (+) SetToBag({
                              [r EXCEPT !.body = addDinerOrder(r.user, order)]})
                        /\ resp' = NoResp
        /\ UNCHANGED <<user, userRole, auth, clock, revoked, call,
                       franchise, store, autoIncrement, pool, boot, metrics, menu, factory>>

\* FactoryService.sendOrder(diner, order): the factory answers ok, answers
\* with a failure, or the fetch throws; then the response of the route
FactoryAnswers ==
    {[kind |-> "ok", reportUrl |-> "http://factory/report/1",
      jwt |-> "factory-jwt"],
     [kind |-> "fail", reportUrl |-> "http://factory/error/1",
      jwt |-> Undefined],
     [kind |-> "throw", reportUrl |-> Undefined, jwt |-> Undefined]}

sendOrder(diner, order, answer) ==
    Append(factory, [diner |-> diner, order |-> order, answer |-> answer])

OrderRelay(r, answer) ==
    /\ r.route = "createOrder"
    /\ reqs' = reqs (-) SetToBag({r})
    /\ factory' = sendOrder([id |-> r.user.id, name |-> r.user.name,
                             email |-> r.user.email], r.body, answer)
    /\ resp' = IF answer.kind = "ok"
               THEN [Respond(r, 200, "") EXCEPT !.body =
                        [order |-> r.body,
                         reportSlowPizzaToFactoryUrl |-> answer.reportUrl,
                         jwt |-> answer.jwt]]
               ELSE IF answer.kind = "fail"
               THEN [Respond(r, 500, "Failed to fulfill order at factory")
                        EXCEPT !.body =
                        [reportPizzaCreationErrorToPizzaFactoryUrl |->
                            answer.reportUrl]]
               ELSE [Respond(r, 500, "fetch failed") EXCEPT !.body = NoBody]
    /\ UNCHANGED <<user, userRole, auth, clock, revoked, call,
                   franchise, store, autoIncrement, pool, boot, metrics, menu, dinerOrder, orderItem>>

(* The clock advances *)

Tick ==
    /\ clock < MaxClock
    /\ clock' = clock + 1
    /\ resp' = NoResp
    /\ UNCHANGED <<user, userRole, auth, reqs, revoked, call, franchise, store, autoIncrement, pool, boot, metrics, orders>>

----------------------------------------------------------------------------
(* Specifications *)

\* Spec: register, login and logout requests served concurrently
Next ==
    \/ \E name \in {DinerName, Undefined}, email \in Emails \cup {Undefined},
          password \in {DinerPassword, Undefined} :
            Register(name, email, password)
    \/ \E email \in Emails, password \in Passwords : Login(email, password)
    \/ \E token \in BearerTokens \cup {NoToken} : Logout(token)
    \/ \E r \in InFlight : LoginSetAuth(r)
    \/ \E r \in InFlight : LogoutClearAuth(r)
    \/ Tick

Spec == Init /\ [][Next]_vars

\* SpecUpdate: the four auth routes, one request served at a time
NextUpdate ==
    \/ /\ reqs = EmptyBag
       /\ \/ \E name \in {DinerName, Undefined},
                email \in Emails \cup {Undefined},
                password \in {DinerPassword, Undefined} :
                  Register(name, email, password)
          \/ \E email \in Emails, password \in Passwords :
                  Login(email, password)
          \/ \E token \in BearerTokens \cup {NoToken} : Logout(token)
          \/ \E token \in BearerTokens \cup {NoToken} :
                  UpdateUnauthorized(token)
          \/ \E token \in ActiveTokens, userId \in 1..MaxUsers,
                email \in Emails \cup {Undefined},
                password \in {DinerPassword, Undefined} :
                  Update(token, userId, email, password)
    \/ \E r \in InFlight : LoginSetAuth(r)
    \/ \E r \in InFlight : LogoutClearAuth(r)

SpecUpdate == Init /\ [][NextUpdate]_vars

\* SpecOrder: the order routes next to register, login and logout, one
\* request served at a time
MenuItem == [title |-> "Veggie", description |-> "A garden of delight",
             image |-> "pizza1.png", price |-> 38]

OrderInputs ==
    [franchiseId : {1}, storeId : {1},
     items : {<<>>,
              <<[menuId |-> 1, description |-> "Veggie", price |-> 38]>>,
              <<[menuId |-> 1, description |-> "Veggie", price |-> 38],
                [menuId |-> 2, description |-> "Pepperoni", price |-> 42]>>}]

NextOrder ==
    \/ /\ reqs = EmptyBag
       /\ \/ \E email \in Emails : Register(DinerName, email, DinerPassword)
          \/ \E email \in Emails, password \in Passwords :
                  Login(email, password)
          \/ \E token \in BearerTokens \cup {NoToken} : Logout(token)
          \/ \E token \in BearerTokens \cup {NoToken} : GetOrders(token)
          \/ \E token \in BearerTokens \cup {NoToken} :
                  AddMenuItem(token, MenuItem)
          \/ \E token \in BearerTokens \cup {NoToken}, order \in OrderInputs :
                  CreateOrder(token, order)
    \/ \E r \in InFlight : LoginSetAuth(r)
    \/ \E r \in InFlight : LogoutClearAuth(r)
    \/ \E r \in InFlight, answer \in FactoryAnswers : OrderRelay(r, answer)

SpecOrder == Init /\ [][NextOrder]_vars

\* SpecDB: the registry methods of DB called directly, with any token string
\* the user views tokens are issued for
SignInputs ==
    {v \in Views : v.keys = GetUserKeys /\ v.name = DinerName
                   /\ v.email = "d@test.com"}

DbTokens ==
    {<<"abc">>, <<"a", "b">>, <<"h", "p", "s1">>, <<"h", "p", "s2">>,
     <<"h", "q", "s1">>,
     jwtSign(CHOOSE v \in SignInputs : v.id = 2 /\ v.roles # <<>>
                                       /\ v.roles[1].role = Role.Diner, 0)}

\* jwt.sign(user, secret) followed by jwt.verify(token, secret)
JwtSign(view, iat) ==
    /\ call' = [op |-> "jwtSign", token |-> jwtSign(view, iat), userId |-> 0,
                threw |-> ~jwtVerifies(jwtSign(view, iat)),
                result |-> jwtVerify(jwtSign(view, iat)), arg |-> view]
    /\ UNCHANGED <<user, userRole, auth, clock, reqs, resp, revoked,
                   franchise, store, autoIncrement, pool, boot, metrics, orders>>

DbLoginUser(userId, token) ==
    /\ Cardinality(loginUser(userId, token)) <= MaxSessions
    /\ auth' = loginUser(userId, token)
    /\ call' = [op |-> "loginUser", token |-> token, userId |-> userId,
                threw |-> loginUserThrows(userId, token), result |-> FALSE, arg |-> NoArg]
    /\ UNCHANGED <<user, userRole, clock, reqs, resp, revoked,
                   franchise, store, autoIncrement, pool, boot, metrics, orders>>

DbIsLoggedIn(token) ==
    /\ call' = [op |-> "isLoggedIn", token |-> token, userId |-> 0,
                threw |-> FALSE, result |-> isLoggedIn(token), arg |-> NoArg]
    /\ UNCHANGED <<user, userRole, auth, clock, reqs, resp, revoked,
                   franchise, store, autoIncrement, pool, boot, metrics, orders>>

DbLogoutUser(token) ==
    /\ auth' = logoutUser(token)
    /\ call' = [op |-> "logoutUser", token |-> token, userId |-> 0,
                threw |-> FALSE, result |-> FALSE, arg |-> NoArg]
    /\ UNCHANGED <<user, userRole, clock, reqs, resp, revoked,
                   franchise, store, autoIncrement, pool, boot, metrics, orders>>

\* the store the DB methods and the routes are called with
StoreInput == [name |-> "SLC"]

\* the users and franchises the DB methods are called with
FranchiseName == "pizzaPocket"

AddUserInputs ==
    [name : {DinerName}, email : Emails, password : {DinerPassword},
     roles : {<<[role |-> Role.Diner, objectId |-> 0]>>,
              <<[role |-> Role.Franchisee, object |-> FranchiseName]>>,
              <<[role |-> Role.Diner, objectId |-> 0],
                [role |-> Role.Franchisee, object |-> FranchiseName]>>}]

CreateFranchiseInputs ==
    [name : {FranchiseName},
     admins : {<<>>, <<"a@jwt.com">>, <<"d@test.com">>,
               <<"a@jwt.com", "d@test.com">>}]

DbAddUser(u) ==
    /\ Len(user) < MaxUsers
    /\ IF addUserThrows(u)
       THEN UNCHANGED <<user, userRole>>
       ELSE /\ user' = addUserRows(u)
            /\ userRole' = addUserRoles(u)
    /\ call' = [op |-> "addUser", token |-> NoToken,
                userId |-> IF addUserThrows(u) \/ addUserRolesThrow(u)
                           THEN 0 ELSE addUser(u).id,
                threw |-> addUserThrows(u) \/ addUserRolesThrow(u),
                result |-> FALSE, arg |-> u]
    /\ UNCHANGED <<auth, clock, reqs, resp, revoked, franchise, store, autoIncrement, pool, boot, metrics, orders>>

\* faulty variant: the franchise row is inserted before the admins are
\* looked up
DbCreateFranchise_WriteFirst(f) ==
    /\ autoIncrement.franchise <= MaxFranchises
    /\ franchise' = createFranchiseRows(f)
    /\ autoIncrement' = [autoIncrement EXCEPT !.franchise = @ + 1]
    /\ userRole' = IF createFranchiseThrows(f) THEN userRole
                   ELSE createFranchiseRoles(f)
    /\ call' = [op |-> "createFranchise", token |-> NoToken, userId |-> 0,
                threw |-> createFranchiseThrows(f),
                result |-> IF createFranchiseThrows(f)
                           THEN [message |->
                                   "unknown user for franchise admin",
                                 statusCode |-> 404]
                           ELSE [message |-> "", statusCode |-> 0],
                arg |-> f]
    /\ UNCHANGED <<user, auth, clock, reqs, resp, revoked, store, pool, boot,
                   metrics, orders>>

DbCreateFranchise(f) ==
    /\ autoIncrement.franchise <= MaxFranchises
    /\ IF createFranchiseThrows(f)
       THEN UNCHANGED <<franchise, autoIncrement, userRole>>
       ELSE /\ franchise' = createFranchiseRows(f)
            /\ autoIncrement' = [autoIncrement EXCEPT !.franchise = @ + 1]
            /\ userRole' = createFranchiseRoles(f)
    /\ call' = [op |-> "createFranchise", token |-> NoToken, userId |-> 0,
                threw |-> createFranchiseThrows(f),
                result |-> IF createFranchiseThrows(f)
                           THEN [message |->
                                   "unknown user for franchise admin",
                                 statusCode |-> 404]
                           ELSE [message |-> "", statusCode |-> 0],
                arg |-> f]
    /\ UNCHANGED <<user, auth, clock, reqs, resp, revoked, store, pool, boot, metrics,
                   orders>>

\* DB.deleteFranchise(franchiseId); statement failsAt throws (0: none)
DbDeleteFranchise(franchiseId, failsAt) ==
    /\ store' = deleteFranchise(franchiseId, failsAt).store
    /\ userRole' = deleteFranchise(franchiseId, failsAt).userRole
    /\ franchise' = deleteFranchise(franchiseId, failsAt).franchise
    /\ call' = [op |-> "deleteFranchise", token |-> NoToken, userId |-> 0,
                threw |-> failsAt # 0,
                result |-> IF failsAt # 0
                           THEN [message |-> "unable to delete franchise",
                                 statusCode |-> 500]
                           ELSE [message |-> "", statusCode |-> 0],
                arg |-> [franchiseId |-> franchiseId, failsAt |-> failsAt]]
    /\ UNCHANGED <<user, auth, clock, reqs, resp, revoked, autoIncrement,
                   pool, boot, metrics, orders>>

\* DB.createStore(franchiseId, store)
DbCreateStore(franchiseId, s) ==
    /\ autoIncrement.store <= MaxStores
    /\ store' = createStoreRows(franchiseId, s)
    /\ autoIncrement' = [autoIncrement EXCEPT !.store = @ + 1]
    /\ call' = [op |-> "createStore", token |-> NoToken, userId |-> 0,
                threw |-> FALSE, result |-> FALSE,
                arg |-> [franchiseId |-> franchiseId, store |-> s]]
    /\ UNCHANGED <<user, userRole, auth, clock, reqs, resp, revoked,
                   franchise, pool, boot, metrics, orders>>

\* the role sets and role kinds isRole is called with
IsRoleInputs ==
    {<<>>,
     <<[role |-> Role.Diner, objectId |-> 0]>>,
     <<[role |-> Role.Franchisee, objectId |-> 1]>>,
     <<[role |-> Role.Diner, objectId |-> 0],
       [role |-> Role.Admin, objectId |-> 0]>>}

DbIsRole(roles, role) ==
    /\ call' = [op |-> "isRole", token |-> NoToken, userId |-> 0,
                threw |-> FALSE, result |-> isRole([roles |-> roles], role),
                arg |-> [roles |-> roles, role |-> role]]
    /\ UNCHANGED <<user, userRole, auth, clock, reqs, resp, revoked,
                   franchise, store, autoIncrement, pool, boot, metrics, orders>>

NextDB ==
    \/ \E userId \in 1..MaxUsers, token \in DbTokens : DbLoginUser(userId, token)
    \/ \E token \in DbTokens : DbIsLoggedIn(token)
    \/ \E token \in DbTokens : DbLogoutUser(token)
    \/ \E u \in AddUserInputs : DbAddUser(u)
    \/ \E f \in CreateFranchiseInputs : DbCreateFranchise(f)
    \/ \E roles \in IsRoleInputs,
          role \in {Role.Diner, Role.Franchisee, Role.Admin} :
            DbIsRole(roles, role)
    \/ \E view \in SignInputs, iat \in 0..MaxClock : JwtSign(view, iat)

SpecDB == Init /\ [][NextDB]_vars

\* the DB methods that write users, franchises, stores and role assignments
NextDBFranchise ==
    \/ \E u \in AddUserInputs : DbAddUser(u)
    \/ \E f \in CreateFranchiseInputs : DbCreateFranchise(f)
    \/ \E franchiseId \in 0..MaxFranchises, failsAt \in 0..4 :
            DbDeleteFranchise(franchiseId, failsAt)
    \/ \E franchiseId \in 1..MaxFranchises :
            DbCreateStore(franchiseId, StoreInput)

SpecDBFranchise == Init /\ [][NextDBFranchise]_vars

----------------------------------------------------------------------------
(* The franchise routes.  Each handler runs between two requests; call     *)
(* records the DB method the handler invoked, NoCall when it invoked none. *)

FranchiseReq(route, token, userId, franchiseId, storeId) ==
    [Req(route, token, Undefined, Undefined, Undefined, userId)
        EXCEPT !.user = setAuthUser(token)]
    @@ [franchiseId |-> franchiseId, storeId |-> storeId]

Invoked(op, arg) ==
    [op |-> op, token |-> NoToken, userId |-> 0, threw |-> FALSE,
     result |-> FALSE, arg |-> arg]

\* GET /api/franchise: no caller is required
GetFranchises(token) ==
    LET r == FranchiseReq("getFranchises", token, 0, 0, 0)
    IN  /\ resp' = [Respond(r, 200, "") EXCEPT !.body = getFranchises(r.user)]
        /\ call' = Invoked("getFranchises", NoArg)
        /\ UNCHANGED <<user, userRole, auth, clock, reqs, revoked,
                       franchise, store, autoIncrement, pool, boot, metrics, orders>>

\* GET /api/franchise/:userId: the caller's own franchises, or any user's
\* for an Admin; [] for everybody else
GetUserFranchises(token, userId) ==
    LET r == FranchiseReq("getUserFranchises", token, userId, 0, 0)
    IN  /\ IF ~authenticateToken(r.user)
           THEN /\ resp' = Respond(r, 401, Unauthorized)
                /\ call' = NoCall
           ELSE IF r.user.id = userId \/ isRole(r.user, Role.Admin)
           THEN /\ resp' = [Respond(r, 200, "") EXCEPT
                                !.body = getUserFranchises(userId)]
                /\ call' = Invoked("getUserFranchises", userId)
           ELSE /\ resp' = [Respond(r, 200, "") EXCEPT !.body = <<>>]
                /\ call' = NoCall
        /\ UNCHANGED <<user, userRole, auth, clock, reqs, revoked,
                       franchise, store, autoIncrement, pool, boot, metrics, orders>>

\* POST /api/franchise: an Admin creates a franchise
CreateFranchise(token, f) ==
    LET r == FranchiseReq("createFranchise", token, 0, 0, 0)
    IN  /\ IF ~authenticateToken(r.user)
           THEN /\ resp' = Respond(r, 401, Unauthorized)
                /\ call' = NoCall
                /\ UNCHANGED <<franchise, userRole, autoIncrement>>
           ELSE IF ~isRole(r.user, Role.Admin)
           THEN /\ resp' = Respond(r, 403, "unable to create a franchise")
                /\ call' = NoCall
                /\ UNCHANGED <<franchise, userRole, autoIncrement>>
           ELSE /\ autoIncrement.franchise <= MaxFranchises
                /\ call' = [Invoked("createFranchise", f) EXCEPT
                                !.threw = createFranchiseThrows(f)]
                /\ IF createFranchiseThrows(f)
                   THEN /\ resp' = Respond(r, 404,
                                    "unknown user for franchise admin")
                        /\ UNCHANGED <<franchise, userRole, autoIncrement>>
                   ELSE /\ franchise' = createFranchiseRows(f)
                        /\ userRole' = createFranchiseRoles(f)
                        /\ autoIncrement' =
                              [autoIncrement EXCEPT !.franchise = @ + 1]
                        /\ resp' = [Respond(r, 200, "") EXCEPT
                                        !.body = createFranchiseResult(f)]
        /\ UNCHANGED <<user, auth, clock, reqs, revoked, store, pool, boot, metrics, orders>>

\* DELETE /api/franchise/:franchiseId: an Admin deletes a franchise
DeleteFranchise(token, franchiseId) ==
    LET r == FranchiseReq("deleteFranchise", token, 0, franchiseId, 0)
    IN  /\ IF ~authenticateToken(r.user)
           THEN /\ resp' = Respond(r, 401, Unauthorized)
                /\ call' = NoCall
                /\ UNCHANGED <<franchise, userRole, store>>
           ELSE IF ~isRole(r.user, Role.Admin)
           THEN /\ resp' = Respond(r, 403, "unable to delete a franchise")
                /\ call' = NoCall
                /\ UNCHANGED <<franchise, userRole, store>>
           ELSE /\ store' = deleteFranchiseStores(franchiseId)
                /\ userRole' = deleteFranchiseRoles(franchiseId)
                /\ franchise' = deleteFranchiseRows(franchiseId)
                /\ call' = Invoked("deleteFranchise", franchiseId)
                /\ resp' = Respond(r, 200, "franchise deleted")
        /\ UNCHANGED <<user, auth, clock, reqs, revoked, autoIncrement, pool, boot, metrics,
                       orders>>

\* the franchise-scoped check of the store routes: DB.getFranchise, then
\* the caller is an Admin or one of franchise.admins
mayChangeStores(u, franchiseId) ==
    \/ isRole(u, Role.Admin)
    \/ \E i \in 1..Len(getFranchiseAdmins(franchiseId)) :
            getFranchiseAdmins(franchiseId)[i].id = u.id

\* POST /api/franchise/:franchiseId/store
CreateStore(token, franchiseId, s) ==
    LET r == FranchiseReq("createStore", token, 0, franchiseId, 0)
    IN  /\ IF ~authenticateToken(r.user)
           THEN /\ resp' = Respond(r, 401, Unauthorized)
                /\ call' = NoCall
                /\ UNCHANGED <<store, autoIncrement>>
           ELSE IF ~mayChangeStores(r.user, franchiseId)
           THEN /\ resp' = Respond(r, 403, "unable to create a store")
                /\ call' = NoCall
                /\ UNCHANGED <<store, autoIncrement>>
           ELSE /\ autoIncrement.store <= MaxStores
                /\ store' = createStoreRows(franchiseId, s)
                /\ autoIncrement' = [autoIncrement EXCEPT !.store = @ + 1]
                /\ call' = Invoked("createStore",
                                   [franchiseId |-> franchiseId, store |-> s])
                /\ resp' = [Respond(r, 200, "") EXCEPT
                                !.body = createStoreResult(franchiseId, s)]
        /\ UNCHANGED <<user, userRole, auth, clock, reqs, revoked, franchise,
                       pool, boot, metrics, orders>>

\* DELETE /api/franchise/:franchiseId/store/:storeId
DeleteStore(token, franchiseId, storeId) ==
    LET r == FranchiseReq("deleteStore", token, 0, franchiseId, storeId)
    IN  /\ IF ~authenticateToken(r.user)
           THEN /\ resp' = Respond(r, 401, Unauthorized)
                /\ call' = NoCall
                /\ UNCHANGED store
           ELSE IF ~mayChangeStores(r.user, franchiseId)
           THEN /\ resp' = Respond(r, 403, "unable to delete a store")
                /\ call' = NoCall
                /\ UNCHANGED store
           ELSE /\ store' = deleteStoreRows(franchiseId, storeId)
                /\ call' = Invoked("deleteStore",
                                   [franchiseId |-> franchiseId,
                                    storeId |-> storeId])
                /\ resp' = Respond(r, 200, "store deleted")
        /\ UNCHANGED <<user, userRole, auth, clock, reqs, revoked, franchise,
                       autoIncrement, pool, boot, metrics, orders>>

NextFranchise ==
    \/ /\ reqs = EmptyBag
       /\ \/ \E email \in Emails : Register(DinerName, email, DinerPassword)
          \/ \E email \in Emails, password \in Passwords :
                  Login(email, password)
          \/ \E token \in BearerTokens \cup {NoToken} : GetFranchises(token)
          \/ \E token \in BearerTokens \cup {NoToken},
                userId \in 1..MaxUsers : GetUserFranchises(token, userId)
          \/ \E token \in BearerTokens \cup {NoToken},
                f \in CreateFranchiseInputs : CreateFranchise(token, f)
          \/ \E token \in BearerTokens \cup {NoToken},
                franchiseId \in 1..MaxFranchises :
                  DeleteFranchise(token, franchiseId)
          \/ \E token \in BearerTokens \cup {NoToken},
                franchiseId \in 1..MaxFranchises :
                  CreateStore(token, franchiseId, StoreInput)
          \/ \E token \in BearerTokens \cup {NoToken},
                franchiseId \in 1..MaxFranchises, storeId \in 1..MaxStores :
                  DeleteStore(token, franchiseId, storeId)
    \/ \E r \in InFlight : LoginSetAuth(r)

SpecFranchise == Init /\ [][NextFranchise]_vars

----------------------------------------------------------------------------
(* The connection pool: createPool and withConnection.  An operation is    *)
(* "simple" (one withConnection), or "nested": its callback calls a second *)
(* withConnection before the first connection is released (updateUser      *)
(* calling getUser, getFranchises and getUserFranchises calling            *)
(* getFranchise); "inner" is the second request of a nested operation.     *)

connectionLimit == 10

\* everything but the pool
program == <<user, userRole, auth, clock, reqs, resp, revoked, call,
             franchise, store, autoIncrement, orders>>

\* nested operations that hold their first connection and wait in the
\* queue for the second
Waiting(p) == Cardinality({i \in 1..Len(p.queue) : p.queue[i] = "inner"})

\* connections taken from the pool
InUse(p) == p.simple + p.outer + Waiting(p) + 2 * p.inner + p.done

\* operations that have started and not finished
Running(p) == p.simple + p.outer + p.inner + p.done + Len(p.queue)

\* a connection is handed to a caller
Granted(p, kind) ==
    IF kind = "simple" THEN [p EXCEPT !.simple = @ + 1]
    ELSE IF kind = "nested" THEN [p EXCEPT !.outer = @ + 1]
    ELSE [p EXCEPT !.inner = @ + 1]

\* pool.getConnection() with waitForConnections: true and queueLimit: 0:
\* a connection when fewer than connectionLimit are taken, else the caller
\* is queued without limit; inUse is the number taken before the call
getConnection(p, kind, inUse) ==
    IF inUse < connectionLimit
    THEN [Granted(p, kind) EXCEPT !.taken = @ + 1]
    ELSE [p EXCEPT !.queue = Append(@, kind)]

\* connection.release(): the connection goes to the first caller of the
\* queue, or back to the pool
\* faulty variant: a connection nobody waits for is not given back
release_Keep(p) ==
    IF p.queue # <<>>
    THEN Granted([p EXCEPT !.queue = Tail(@)], Head(p.queue))
    ELSE p

release(p) ==
    IF p.queue # <<>>
    THEN Granted([p EXCEPT !.queue = Tail(@)], Head(p.queue))
    ELSE [p EXCEPT !.taken = @ - 1]

\* how a callback ends
Outcomes == {"returns", "throws"}

\* an operation starts: withConnection asks for its connection
Begin(kind) ==
    /\ Running(pool) < MaxOps
    /\ pool' = getConnection(pool, kind, pool.taken)
    /\ UNCHANGED <<program, boot, metrics>>

\* the callback of a nested operation calls withConnection again
CallNested ==
    /\ pool.outer > 0
    /\ pool' = getConnection([pool EXCEPT !.outer = @ - 1], "inner",
                             pool.taken)
    /\ UNCHANGED <<program, boot, metrics>>

\* the inner withConnection ends, its callback having returned or thrown:
\* finally { connection.release() }
ReturnNested(outcome) ==
    /\ pool.inner > 0
    /\ pool' = release([pool EXCEPT !.inner = @ - 1, !.done = @ + 1,
                                    !.last = outcome])
    /\ UNCHANGED <<program, boot, metrics>>

\* the (outer) withConnection ends, its callback having returned or
\* thrown: finally { connection.release() }
Finish(kind, outcome) ==
    /\ IF kind = "simple" THEN pool.simple > 0 ELSE pool.done > 0
    /\ pool' = release(IF kind = "simple"
                       THEN [pool EXCEPT !.simple = @ - 1, !.last = outcome]
                       ELSE [pool EXCEPT !.done = @ - 1, !.last = outcome])
    /\ UNCHANGED <<program, boot, metrics>>

NextPool ==
    \/ \E kind \in {"simple", "nested"} : Begin(kind)
    \/ CallNested
    \/ \E outcome \in Outcomes : ReturnNested(outcome)
    \/ \E kind \in {"simple", "nested"}, outcome \in Outcomes :
            Finish(kind, outcome)

SpecPool == Init /\ [][NextPool]_vars

----------------------------------------------------------------------------
(* Start-up: the constructor stores the promise of initializeDatabase in   *)
(* this.initialized, and every withConnection awaits it.  Every await of   *)
(* initializeDatabase can throw.                                           *)

defaultAdmin ==
    [name |-> AdminName, email |-> "a@jwt.com", password |-> AdminPassword,
     roles |-> <<[role |-> Role.Admin, objectId |-> 0]>>]

\* new DB(): initializeDatabase has run up to its first await
Booting(dbExists) ==
    [pc |-> "connect", initialized |-> "pending", dbExists |-> dbExists,
     failed |-> FALSE, statement |-> 0, admin |-> "none", waiting |-> 0]

\* the database server holds an earlier installation, or none
InitBoot ==
    \E dbExists \in BOOLEAN :
        /\ user = IF dbExists
                  THEN <<[id |-> 1, name |-> AdminName, email |-> "a@jwt.com",
                          password |-> bcryptHash(AdminPassword)]>>
                  ELSE <<>>
        /\ userRole = IF dbExists
                      THEN <<[userId |-> 1, role |-> Role.Admin,
                              objectId |-> 0]>>
                      ELSE <<>>
        /\ boot = Booting(dbExists)
        /\ auth = {}
        /\ clock = 0
        /\ reqs = EmptyBag
        /\ resp = NoResp
        /\ revoked = NoToken
        /\ call = NoCall
        /\ franchise = <<>>
        /\ store = <<>>
        /\ autoIncrement = [franchise |-> 1, store |-> 1]
        /\ pool = NoHolders
        /\ metrics = NoMetrics
        /\ menu = <<>>
        /\ dinerOrder = <<>>
        /\ orderItem = <<>>
        /\ factory = <<>>

\* catch (err) { console.error(...) }: the promise resolves
caught(b) == [b EXCEPT !.pc = "resolved", !.initialized = "resolved",
                       !.failed = TRUE]

\* an await inside the inner try throws: finally, then catch
thrown(b) == [b EXCEPT !.pc = "end", !.failed = TRUE]

\* faulty variant: await this.addUser(defaultAdmin)
afterAddUser_Awaited(admin) ==
    IF admin \in {"done", "failed"} THEN "end" ELSE "addUser"

\* this.addUser(defaultAdmin) is called and not awaited: initializeDatabase
\* goes on to its finally block
afterAddUser(admin) == "end"

\* after the loop over the statements: the default admin of a new database
afterTables(b) ==
    IF b.dbExists
    THEN [b EXCEPT !.pc = "end"]
    ELSE [b EXCEPT !.admin = "waiting", !.pc = afterAddUser("waiting")]

\* await mysql.createConnection(...)
Connect(ok) ==
    /\ boot.pc = "connect"
    /\ boot' = IF ok THEN [boot EXCEPT !.pc = "check"] ELSE caught(boot)
    /\ UNCHANGED <<program, pool, metrics>>

\* await this.checkDatabaseExists(connection)
CheckDatabaseExists(ok) ==
    /\ boot.pc = "check"
    /\ boot' = IF ok THEN [boot EXCEPT !.pc = "create"] ELSE thrown(boot)
    /\ UNCHANGED <<program, pool, metrics>>

\* CREATE DATABASE IF NOT EXISTS, then USE
CreateDatabase(ok) ==
    /\ boot.pc \in {"create", "use"}
    /\ boot' = IF ~ok THEN thrown(boot)
               ELSE IF boot.pc = "create" THEN [boot EXCEPT !.pc = "use"]
               ELSE [boot EXCEPT !.pc = "tables"]
    /\ UNCHANGED <<program, pool, metrics>>

\* for (const statement of dbModel.tableCreateStatements)
CreateTable(ok) ==
    /\ boot.pc = "tables"
    /\ boot' = IF ~ok THEN thrown(boot)
               ELSE IF boot.statement + 1 < MaxStatements
               THEN [boot EXCEPT !.statement = @ + 1]
               ELSE afterTables([boot EXCEPT !.statement = @ + 1])
    /\ UNCHANGED <<program, pool, metrics>>

\* finally { await connection.end() }; a throw is caught by the outer catch
EndConnection(ok) ==
    /\ boot.pc = "end"
    /\ boot' = IF ok
               THEN [boot EXCEPT !.pc = "resolved", !.initialized = "resolved"]
               ELSE caught(boot)
    /\ UNCHANGED <<program, pool, metrics>>

\* a request calls withConnection: await this.initialized
AwaitInitialized ==
    /\ boot.waiting + Running(pool) < MaxOps
    /\ boot' = [boot EXCEPT !.waiting = @ + 1]
    /\ UNCHANGED <<program, pool, metrics>>

\* this.initialized is resolved: createPool and pool.getConnection(), which
\* gives or queues a connection, or rejects
Proceed(ok) ==
    /\ boot.initialized = "resolved"
    /\ boot.waiting > 0
    /\ boot' = [boot EXCEPT !.waiting = @ - 1]
    /\ pool' = IF ok THEN getConnection(pool, "simple", pool.taken) ELSE pool
    /\ UNCHANGED <<program, metrics>>

\* the withConnection of addUser(defaultAdmin) gets past this.initialized
AdminProceed(ok) ==
    /\ boot.initialized = "resolved"
    /\ boot.admin = "waiting"
    /\ boot' = [boot EXCEPT !.admin = IF ok THEN "started" ELSE "failed"]
    /\ pool' = IF ok THEN getConnection(pool, "simple", pool.taken) ELSE pool
    /\ UNCHANGED <<program, metrics>>

\* addUser(defaultAdmin) runs its statements and releases its connection
AdminFinish ==
    /\ boot.admin = "started"
    /\ pool.simple > 0
    /\ user' = addUserRows(defaultAdmin)
    /\ userRole' = addUserRoles(defaultAdmin)
    /\ pool' = release([pool EXCEPT !.simple = @ - 1, !.last = "returns"])
    /\ boot' = [boot EXCEPT !.admin = "done"]
    /\ UNCHANGED <<auth, clock, reqs, resp, revoked, call, franchise, store,
                   autoIncrement, metrics, orders>>

\* the withConnection of a request ends
FinishRequest(outcome) ==
    /\ Running(pool) > (IF boot.admin = "started" THEN 1 ELSE 0)
    /\ Finish("simple", outcome)

BootStep ==
    \E ok \in BOOLEAN :
        \/ Connect(ok)
        \/ CheckDatabaseExists(ok)
        \/ CreateDatabase(ok)
        \/ CreateTable(ok)
        \/ EndConnection(ok)

NextBoot ==
    \/ \E ok \in BOOLEAN : Connect(ok)
    \/ \E ok \in BOOLEAN : CheckDatabaseExists(ok)
    \/ \E ok \in BOOLEAN : CreateDatabase(ok)
    \/ \E ok \in BOOLEAN : CreateTable(ok)
    \/ \E ok \in BOOLEAN : EndConnection(ok)
    \/ AwaitInitialized
    \/ \E ok \in BOOLEAN : Proceed(ok)
    \/ \E ok \in BOOLEAN : AdminProceed(ok)
    \/ AdminFinish
    \/ \E outcome \in Outcomes : FinishRequest(outcome)

\* every step of initializeDatabase returns or throws, and the event loop
\* runs every continuation that is ready
SpecBoot ==
    /\ InitBoot
    /\ [][NextBoot]_vars
    /\ WF_vars(BootStep)
    /\ WF_vars(\E ok \in BOOLEAN : AdminProceed(ok))
    /\ WF_vars(AdminFinish)

----------------------------------------------------------------------------
(* metrics.js: metricTracker sees every request; for PUT /api/auth and     *)
(* DELETE /api/auth it registers a listener that counts the attempt when   *)
(* the response finishes. Every 5 seconds the interval builds a report     *)
(* from the counters and resets the two auth-attempt counters. Listeners   *)
(* and the interval callback run to completion on the one event loop.      *)

Methods == {"GET", "POST", "PUT", "DELETE"}

Urls == {"/api/auth", "/api/order"}

StatusCodes == {200, 201, 401, 500}

\* trackHttpMetrics: the total and the count of the method
trackHttpMetrics(m, method) ==
    [m EXCEPT !.totalRequests = @ + 1,
              !.methodCounts[method] = @ + 1]

\* the number of finish listeners trackAuthMetrics registers on the response
authListeners(method, url) ==
    IF method = "PUT" /\ url = "/api/auth" THEN 1
    ELSE IF method = "DELETE" /\ url = "/api/auth" THEN 1
    ELSE 0

\* trackAuthMetrics: a login adds an active user, a logout removes one
trackAuthMetrics(m, method, url) ==
    LET active == IF method = "PUT" /\ url = "/api/auth"
                  THEN m.activeUsers + 1
                  ELSE IF method = "DELETE" /\ url = "/api/auth"
                       THEN IF m.activeUsers > 0 THEN m.activeUsers - 1
                            ELSE 0
                       ELSE m.activeUsers
    IN  [m EXCEPT !.activeUsers = active,
                  !.pending = Append(@, [method |-> method, url |-> url,
                                   listeners |-> authListeners(method, url)])]

\* the finish listener of incrementAuthAttemptRates, once per registration
incrementAuthAttemptRates(m, listeners, statusCode) ==
    IF statusCode = 200 \/ statusCode = 201
    THEN [m EXCEPT !.succesfulAuthAttempts = @ + listeners]
    ELSE [m EXCEPT !.unsuccessfulAuthAttempts = @ + listeners]

\* faulty variant: the report reads the counters and does not reset them
authAttempMetrics_Keep(m, buf) ==
    [m EXCEPT !.reports = Append(@,
         [buf EXCEPT !.successful_auth_attempts = m.succesfulAuthAttempts,
                     !.unsuccessful_auth_attempts
                          = m.unsuccessfulAuthAttempts])]

\* authAttempMetrics: each counter is added to the buffer and set to 0
authAttempMetrics(m, buf) ==
    [m EXCEPT !.reports = Append(@,
         [buf EXCEPT !.successful_auth_attempts = m.succesfulAuthAttempts,
                     !.unsuccessful_auth_attempts
                          = m.unsuccessfulAuthAttempts]),
              !.succesfulAuthAttempts = 0,
              !.unsuccessfulAuthAttempts = 0]

\* httpMetrics and authMetrics: the buffer before authAttempMetrics
httpMetrics(m) ==
    [http_requests_total |-> m.totalRequests,
     authenticated_users |-> m.activeUsers,
     successful_auth_attempts |-> 0,
     unsuccessful_auth_attempts |-> 0]

\* whether a request is a login or a logout
IsAuthAttempt(r) ==
    r.url = "/api/auth" /\ r.method \in {"PUT", "DELETE"}

Remove(seq, i) ==
    [k \in 1..(Len(seq) - 1) |-> IF k < i THEN seq[k] ELSE seq[k + 1]]

\* a request arrives
metricTracker(method, url) ==
    /\ metrics.totalRequests < MaxRequests
    /\ metrics' = trackAuthMetrics(trackHttpMetrics(metrics, method),
                                   method, url)
    /\ UNCHANGED <<program, pool, boot>>

\* the response of pending request i finishes with a status code
ResponseFinish(i, statusCode) ==
    /\ i \in 1..Len(metrics.pending)
    /\ LET r == metrics.pending[i]
           counted == incrementAuthAttemptRates(metrics, r.listeners,
                                                statusCode)
       IN  metrics' =
             [counted EXCEPT
                !.pending = Remove(@, i),
                !.finished =
                   IF ~IsAuthAttempt(r) THEN @
                   ELSE IF statusCode \in {200, 201}
                        THEN <<@[1] + 1, @[2]>>
                        ELSE <<@[1], @[2] + 1>>]
    /\ UNCHANGED <<program, pool, boot>>

\* the interval fires: one report is built
ReportTick ==
    /\ Len(metrics.reports) < MaxReports
    /\ metrics' = authAttempMetrics(metrics, httpMetrics(metrics))
    /\ UNCHANGED <<program, pool, boot>>

NextMetrics ==
    \/ \E method \in Methods, url \in Urls : metricTracker(method, url)
    \/ \E i \in 1..MaxRequests, statusCode \in StatusCodes :
          ResponseFinish(i, statusCode)
    \/ ReportTick

SpecMetrics == Init /\ [][NextMetrics]_vars

\* the attempts of one kind the reports built so far have counted
Reported(field) ==
    LET F[k \in 0..Len(metrics.reports)] ==
            IF k = 0 THEN 0 ELSE F[k - 1] + metrics.reports[k][field]
    IN  F[Len(metrics.reports)]

----------------------------------------------------------------------------
(* Properties *)

\* the signature segment of a token, and whether the registry records it
ThirdSegment(token) == IF Len(token) >= 3 THEN token[3] ELSE ""

Recorded(token, table) ==
    Len(token) >= 3 /\ \E row \in table : row.token = token[3]

\* the requests a step put in flight
Admitted(before, after) ==
    {r \in BagToSet(after) : CopiesIn(r, after) > CopiesIn(r, before)}

CredentialsStored(email, password) ==
    \E i \in 1..Len(user) :
        user[i].email = email /\ user[i].password = bcryptHash(password)

\* C1: the guard resolves a caller only for a token whose signature segment
\* is recorded in the registry at that moment; a request whose token's
\* signature is absent is answered 401 without a caller, whatever logins,
\* registrations, logouts and updates came before.
C1_CallerOnlyIfRecorded ==
    [][ /\ \A r \in Admitted(reqs, reqs') :
              r.user # NoUser => Recorded(r.token, auth)
        /\ (resp'.route = "update" /\ resp'.user # NoUser)
              => Recorded(resp'.token, auth)
        /\ (resp'.route = "update" /\ ~Recorded(resp'.token, auth))
              => (resp'.status = 401 /\ resp'.user = NoUser)
      ]_vars

\* C1 witness: a correctly signed token that was logged out is refused
C1_Witness ==
    /\ resp.route = "update" /\ resp.status = 401
    /\ jwtVerifies(resp.token) /\ resp.token = revoked
    /\ ~Recorded(resp.token, auth)

\* C2: after a successful logout with token T, T's signature is not in the
\* registry and no request bearing T is given a caller (a logout bearing T
\* is answered 401) until T is activated again, also while the same user
\* has other active sessions.
C2_RevokedStaysOut ==
    [][ /\ revoked' # NoToken => ~Recorded(revoked', auth')
        /\ \A r \in Admitted(reqs, reqs') :
              r.user # NoUser => r.token # revoked
        /\ (resp'.route = "logout" /\ reqs' = reqs /\ revoked # NoToken
              /\ resp'.token = revoked)
              => (resp'.status = 401 /\ resp'.user = NoUser)
      ]_vars

\* C2 witness: T was logged out, its user has another active session, and
\* a logout bearing T was answered 401
C2_Witness ==
    /\ revoked # NoToken
    /\ resp.route = "logout" /\ resp.status = 401 /\ resp.token = revoked
    /\ \E row \in auth : row.userId = jwtVerify(revoked).id

\* C3: a logout without a token, or with a token whose signature is not
\* recorded, is answered 401 'unauthorized' and leaves the registry as it
\* was; only a logout whose signature is recorded goes on to clearAuth.
C3_LogoutWithoutCaller ==
    [][ /\ (resp'.route = "logout" /\ reqs' = reqs
              /\ (resp'.token = NoToken \/ ~Recorded(resp'.token, auth)))
              => (resp'.status = 401 /\ resp'.message = Unauthorized
                    /\ auth' = auth)
        /\ \A r \in Admitted(reqs, reqs') :
              r.route = "logout" => Recorded(r.token, auth)
        /\ (resp'.route = "logout" /\ resp'.status # 200)
              => (resp'.status = 401 /\ auth' = auth)
      ]_vars

\* C3 witness: a logout without a token was refused while sessions exist
C3_Witness ==
    /\ resp.route = "logout" /\ resp.token = NoToken /\ resp.status = 401
    /\ auth # {}

\* C4: a login with a stored (email, password) pair is answered 200 with a
\* token whose signature the registry records right after the response.
C4_LoginSucceeds ==
    (resp.route = "login" /\ CredentialsStored(resp.email, resp.password))
        => (resp.status = 200 /\ Recorded(resp.out, auth))

\* C5: a login with a wrong password and a login with an unknown email are
\* answered alike (404 'unknown user'), without a token and without a new
\* registry record.
C5_BadCredentialsAlike ==
    [][ (resp'.route = "login"
            /\ ~CredentialsStored(resp'.email, resp'.password))
          => (resp'.status = 404 /\ resp'.message = UnknownUser
                /\ resp'.out = NoToken /\ auth' = auth)
      ]_vars

\* C5 witness: a wrong password for an existing email was refused
C5_Witness ==
    /\ resp.route = "login" /\ resp.status = 404
    /\ \E i \in 1..Len(user) : user[i].email = resp.email

\* C6: of two logins of the same user that were in flight together and are
\* answered one right after the other, the second succeeds as the first
\* did, with a different signature, and both signatures are recorded.
C6_ParallelLoginsDistinct ==
    [][ (resp.route = "login" /\ resp.status = 200
            /\ resp'.route = "login" /\ reqs' # reqs
            /\ resp'.view.id = resp.view.id)
          => (resp'.status = 200
                /\ ThirdSegment(resp'.out) # ThirdSegment(resp.out)
                /\ Recorded(resp'.out, auth') /\ Recorded(resp.out, auth'))
      ]_vars

\* C7: loginUser called with a token whose signature is already recorded
\* completes without error and leaves the registry as it was.
C7_ActivateIdempotent ==
    [][ (call'.op = "loginUser" /\ Recorded(call'.token, auth))
          => (~call'.threw /\ auth' = auth)
      ]_vars

\* C8: logoutUser never fails; it removes the records of the token's
\* signature and no other record, so on a signature that is not recorded
\* (a second logoutUser included) it changes nothing.
C8_DeactivateIdempotent ==
    [][ call'.op = "logoutUser"
          => /\ ~call'.threw
             /\ auth' \subseteq auth
             /\ \A row \in auth :
                   row \in auth' <=> row.token # ThirdSegment(call'.token)
      ]_vars

\* C8 witness: logoutUser ran and records of other signatures remain
C8_Witness ==
    /\ call.op = "logoutUser" /\ auth # {}
    /\ \A row \in auth : row.token # ThirdSegment(call.token)

\* C9: isLoggedIn reports a token of fewer than three segments inactive in
\* every state.
C9_MalformedInactive ==
    (call.op = "isLoggedIn" /\ Len(call.token) < 3) => ~call.result

\* C10: a completed loginUser is visible at once: the signature is recorded
\* when loginUser returns, stays recorded until a logoutUser of that
\* signature, and isLoggedIn answers from the table as it is.
C10_ReadAfterWrite ==
    [][ /\ call'.op = "loginUser"
              => \E row \in auth' : row.token = ThirdSegment(call'.token)
        /\ \A row \in auth :
              row \notin auth'
                => (call'.op = "logoutUser"
                      /\ ThirdSegment(call'.token) = row.token)
        /\ call'.op = "isLoggedIn"
              => (call'.result
                    <=> \E row \in auth :
                           row.token = ThirdSegment(call'.token))
      ]_vars

\* C10 witness: isLoggedIn answered true for an activated three-part token
C10_Witness ==
    /\ call.op = "isLoggedIn" /\ call.result /\ Len(call.token) = 3

\* C11: a request bearing T that arrives while a logout of T is in flight
\* either finds T's signature recorded and goes on as T's caller, or finds
\* it gone and is answered 401; each logout that completes leaves the
\* registry without T's signature and with every other record as it was.
C11_LogoutRace ==
    [][ /\ \A r \in Admitted(reqs, reqs') :
              (r.route = "logout" /\ \E q \in InFlight : q.token = r.token)
                => (Recorded(r.token, auth) /\ r.user = jwtVerify(r.token))
        /\ (resp'.route = "logout" /\ reqs' = reqs
              /\ \E q \in InFlight : q.token = resp'.token)
              => (resp'.status = 401 /\ resp'.user = NoUser
                    /\ ~Recorded(resp'.token, auth) /\ auth' = auth)
        /\ (resp'.route = "logout" /\ reqs' # reqs)
              => /\ resp'.status = 200
                 /\ ~Recorded(resp'.token, auth')
                 /\ auth' \subseteq auth
                 /\ \A row \in auth :
                       row.token # ThirdSegment(resp'.token) => row \in auth'
      ]_vars

\* C11 witness: a request bearing T was refused while a logout of T was
\* still in flight, and another session is still recorded
C11_Witness ==
    /\ resp.route = "logout" /\ resp.status = 401
    /\ \E q \in InFlight : q.route = "logout" /\ q.token = resp.token
    /\ auth # {}

\* C12: a login or registration answered 200 adds exactly one record to the
\* registry and removes none; a logout answered 200 removes the records of
\* its token's signature and no other; no other step changes the registry.
C12_SessionsAdditive ==
    [][ /\ (resp'.route \in {"login", "register"} /\ resp'.status = 200)
              => /\ auth \subseteq auth'
                 /\ Cardinality(auth') = Cardinality(auth) + 1
                 /\ Recorded(resp'.out, auth')
        /\ (resp'.route = "logout" /\ resp'.status = 200)
              => auth' = {row \in auth :
                            row.token # ThirdSegment(resp'.token)}
        /\ auth' # auth => resp'.status = 200
      ]_vars

\* C12 witness: a login succeeded and its user now has two sessions
C12_Witness ==
    /\ resp.route = "login" /\ resp.status = 200
    /\ Cardinality({row \in auth : row.userId = resp.view.id}) = 2

\* C13: of the auth routes only login, registration and logout change the
\* registry; an update of email or password leaves it as it was, so the
\* token that carried the update is still recorded after it.
C13_UpdateKeepsSessions ==
    [][ /\ resp'.route = "update" => auth' = auth
        /\ auth' # auth => resp'.route \in {"login", "register", "logout"}
        /\ (resp'.route = "update" /\ resp'.status = 200)
              => Recorded(resp'.token, auth')
      ]_vars

\* C13 witness: a password was changed and the token used is still recorded
C13_Witness ==
    /\ resp.route = "update" /\ resp.status = 200
    /\ resp.password # Undefined
    /\ user[resp.userId].password = bcryptHash(resp.password)
    /\ Recorded(resp.token, auth)

\* C14: an update by a caller who is neither the target user nor an Admin
\* is answered 403 and leaves table user as it was; an update without a
\* caller is answered 401, a different status.
C14_CrossUserUpdateForbidden ==
    [][ /\ (resp'.route = "update" /\ resp'.user # NoUser
              /\ resp'.user.id # resp'.userId
              /\ \A i \in 1..Len(resp'.user.roles) :
                    resp'.user.roles[i].role # Role.Admin)
              => (resp'.status = 403 /\ resp'.message = Unauthorized
                    /\ user' = user)
        /\ (resp'.route = "update" /\ resp'.user = NoUser)
              => (resp'.status = 401 /\ user' = user)
      ]_vars

\* C14 witness: a diner's update of another existing user was refused
C14_Witness ==
    /\ resp.route = "update" /\ resp.status = 403
    /\ resp.userId \in 1..Len(user) /\ resp.email # Undefined

\* C15: an update of the caller's own record, with an email, a password or
\* both in the body (the email not used by another user), is answered 200
\* with a record that shows the stored email.
C15_SelfUpdate ==
    (/\ resp.route = "update" /\ resp.user # NoUser
     /\ resp.user.id = resp.userId
     /\ (resp.email # Undefined \/ resp.password # Undefined)
     /\ \A i \in 1..Len(user) : user[i].email = resp.email => i = resp.userId)
      => /\ resp.status = 200
         /\ resp.view.email = user[resp.userId].email
         /\ resp.email # Undefined => resp.view.email = resp.email

\* C16: a registration without name, email or password is answered 400
\* with a message that says 'required', and writes no user, no role, no
\* registry record and issues no token.
C16_RegisterValidation ==
    [][ (resp'.route = "register"
            /\ Undefined \in {resp'.name, resp'.email, resp'.password})
          => /\ resp'.status = 400
             /\ resp'.message = "name, email, and password are required"
             /\ resp'.out = NoToken
             /\ user' = user /\ userRole' = userRole /\ auth' = auth
      ]_vars

\* C16 witness: a registration without a password was refused
C16_Witness ==
    /\ resp.route = "register" /\ resp.status = 400
    /\ resp.password = Undefined /\ resp.name # Undefined
    /\ resp.email # Undefined

\* C17: a registration with name, email and password, the email not in use,
\* is answered 200 with the id of the new user, the role set <<diner>> and a
\* three-segment token whose signature is recorded; table userRole holds
\* exactly one row for the new user, a Diner row.
C17_RegisterIsLogin ==
    [][ (resp'.route = "register"
            /\ Undefined \notin {resp'.name, resp'.email, resp'.password}
            /\ \A i \in 1..Len(user) : user[i].email # resp'.email)
          => /\ resp'.status = 200
             /\ Len(user') = Len(user) + 1
             /\ resp'.view.id = Len(user')
             /\ user'[Len(user')].email = resp'.email
             /\ resp'.view.roles = <<[role |-> Role.Diner, objectId |-> 0]>>
             /\ {i \in 1..Len(userRole') :
                    userRole'[i].userId = resp'.view.id} = {Len(userRole')}
             /\ userRole'[Len(userRole')].role = Role.Diner
             /\ Len(resp'.out) = 3 /\ Recorded(resp'.out, auth')
             /\ jwtVerify(resp'.out).id = resp'.view.id
      ]_vars

\* C17 witness: a registration succeeded
C17_Witness ==
    /\ resp.route = "register" /\ resp.status = 200
    /\ resp.view.id = Len(user) /\ Recorded(resp.out, auth)

C20_AddUserFranchiseeAtomic ==
    [][ (call'.op = "addUser"
            /\ \E i \in 1..Len(call'.arg.roles) :
                  /\ call'.arg.roles[i].role = Role.Franchisee
                  /\ \A k \in 1..Len(franchise) :
                        franchise[k].name # call'.arg.roles[i].object)
          => (call'.threw /\ user' = user /\ userRole' = userRole)
      ]_vars

\* C18: on the routes that require a caller (logout, getOrders, createOrder,
\* addMenuItem) a request without a caller is answered 401 'unauthorized'
\* and writes nothing; an order row, a menu row or a request to the factory
\* appears only in a step of a request that has a caller.
C18_UnauthorizedBeforeLogic ==
    [][ /\ (resp'.route \in {"logout", "getOrders", "createOrder", "addMenuItem"}
              /\ resp'.user = NoUser)
              => /\ resp'.status = 401 /\ resp'.message = Unauthorized
                 /\ resp'.body = NoBody
                 /\ dinerOrder' = dinerOrder /\ orderItem' = orderItem
                 /\ menu' = menu /\ factory' = factory
                 /\ user' = user /\ userRole' = userRole /\ auth' = auth
        /\ \A r \in Admitted(reqs, reqs') :
              r.route \in {"logout", "createOrder"} => r.user # NoUser
        /\ (dinerOrder' # dinerOrder \/ orderItem' # orderItem)
              => \E r \in Admitted(reqs, reqs') \cup {resp'} :
                    r.route = "createOrder" /\ r.user # NoUser
        /\ factory' # factory
              => (resp'.route = "createOrder" /\ resp'.user # NoUser)
        /\ menu' # menu
              => (resp'.route = "addMenuItem" /\ resp'.user # NoUser)
      ]_vars

\* C18 witness: an order without a caller was refused while the menu has
\* the item it asks for
C18_Witness ==
    /\ resp.route = "createOrder" /\ resp.status = 401
    /\ resp.user = NoUser /\ Len(menu) = 1 /\ dinerOrder = <<>>

\* C23: PUT /api/order/menu by a caller without the Admin role is answered
\* 403 and leaves the menu as it was; by an Admin it appends the item and
\* answers 200 with the whole menu; the menu changes in no other step.
C23_MenuAdminOnly ==
    [][ /\ (resp'.route = "addMenuItem" /\ resp'.user # NoUser
              /\ \A i \in 1..Len(resp'.user.roles) :
                    resp'.user.roles[i].role # Role.Admin)
              => (resp'.status = 403 /\ menu' = menu /\ resp'.body = NoBody)
        /\ (resp'.route = "addMenuItem" /\ resp'.user # NoUser
              /\ \E i \in 1..Len(resp'.user.roles) :
                    resp'.user.roles[i].role = Role.Admin)
              => /\ resp'.status = 200
                 /\ Len(menu') = Len(menu) + 1
                 /\ SubSeq(menu', 1, Len(menu)) = menu
                 /\ menu'[Len(menu')].title = MenuItem.title
                 /\ resp'.body = menu'
        /\ menu' # menu => (resp'.route = "addMenuItem" /\ resp'.status = 200)
      ]_vars

\* C23 witness: a diner's menu item was refused
C23_Witness ==
    /\ resp.route = "addMenuItem" /\ resp.status = 403
    /\ resp.user # NoUser /\ menu = <<>>

\* C26: the user view of every register, login and update response, and of
\* every login in flight, has its password undefined.
C26_NoPasswordInView ==
    /\ resp.view.password = Undefined
    /\ \A r \in InFlight : r.view.password = Undefined

\* C26 witness: an update with a new password returned the view of the user
C26_Witness ==
    /\ resp.route = "update" /\ resp.status = 200 /\ resp.view.id # 0
    /\ resp.password # Undefined

\* C27: isRole is true exactly when some assignment of the caller has the
\* role kind, whatever its scope object; with no assignment it is false.
C27_IsRoleByKind ==
    call.op = "isRole"
      => /\ call.result
               <=> call.arg.role \in {call.arg.roles[i].role :
                                        i \in 1..Len(call.arg.roles)}
         /\ call.arg.roles = <<>> => ~call.result

\* C27 witness: isRole was true by an assignment with a scope object
C27_Witness ==
    /\ call.op = "isRole" /\ call.result
    /\ call.arg.roles = <<[role |-> Role.Franchisee, objectId |-> 1]>>

\* C28: an order is sent to the factory only after its row and its items
\* are in the tables; a failure answer of the factory gives 500 with the
\* report URL of the factory, a success answer gives 200 with the persisted
\* order, its id, and the report URL and jwt of the factory.
C28_PersistThenRelay ==
    [][ factory' # factory
          => LET sent == factory'[Len(factory')]
             IN  /\ Len(factory') = Len(factory) + 1
                 /\ \E i \in 1..Len(dinerOrder) :
                       /\ dinerOrder[i].id = sent.order.id
                       /\ dinerOrder[i].dinerId = sent.diner.id
                 /\ Cardinality({k \in 1..Len(orderItem) :
                                   orderItem[k].orderId = sent.order.id})
                       = Len(sent.order.items)
                 /\ dinerOrder' = dinerOrder /\ orderItem' = orderItem
                 /\ resp'.route = "createOrder"
                 /\ sent.answer.kind = "fail"
                       => /\ resp'.status = 500
                          /\ resp'.body.reportPizzaCreationErrorToPizzaFactoryUrl
                                = sent.answer.reportUrl
                 /\ sent.answer.kind = "ok"
                       => /\ resp'.status = 200
                          /\ resp'.body.order = sent.order
                          /\ resp'.body.reportSlowPizzaToFactoryUrl
                                = sent.answer.reportUrl
                          /\ resp'.body.jwt = sent.answer.jwt
      ]_vars

\* C28 witness: the factory refused an order with one item; the order and
\* its item are in the tables
C28_Witness ==
    /\ resp.route = "createOrder" /\ resp.status = 500
    /\ Len(factory) = 1 /\ factory[1].answer.kind = "fail"
    /\ Len(dinerOrder) = 1 /\ Len(orderItem) = 1

C30_NoMutualWait ==
    pool.queue # <<>>
        => pool.simple + pool.outer + pool.inner + pool.done > 0

\* the caller holds the Admin role
HoldsAdmin(u) == \E i \in 1..Len(u.roles) : u.roles[i].role = Role.Admin

\* the user has a Franchisee row for the franchise
IsAdminOf(userId, franchiseId) ==
    \E k \in 1..Len(userRole) :
        /\ userRole[k].userId = userId
        /\ userRole[k].role = Role.Franchisee
        /\ userRole[k].objectId = franchiseId

\* C21: creating and deleting a franchise is for Admin callers only: any
\* other authenticated caller gets 403, and the franchises, the stores and
\* the role assignments stay as they were, no DB method being invoked.
C21_FranchiseAdminOnly ==
    [][ resp'.route \in {"createFranchise", "deleteFranchise"}
          => /\ (resp'.user # NoUser /\ ~HoldsAdmin(resp'.user))
                   => /\ resp'.status = 403
                      /\ franchise' = franchise /\ store' = store
                      /\ userRole' = userRole
                      /\ call'.op = "none"
             /\ (\/ franchise' # franchise
                 \/ call'.op \in {"createFranchise", "deleteFranchise"})
                   => HoldsAdmin(resp'.user)
      ]_vars

\* C21 witness: a franchisee asked to delete their own franchise, which has
\* a store, and was refused
C21_Witness ==
    /\ resp.route = "deleteFranchise" /\ resp.status = 403
    /\ IsAdminOf(resp.user.id, resp.franchiseId)
    /\ \E i \in 1..Len(franchise) : franchise[i].id = resp.franchiseId
    /\ \E i \in 1..Len(store) : store[i].franchiseId = resp.franchiseId

\* C22: a store of franchise F is created or deleted only for a caller who
\* holds the Admin role or is one of F's admins; every other authenticated
\* caller gets 403, the stores stay as they were and no DB method that
\* changes them is invoked.
C22_StoreScopedCheck ==
    [][ resp'.route \in {"createStore", "deleteStore"}
          => LET permitted ==
                     \/ HoldsAdmin(resp'.user)
                     \/ /\ resp'.user # NoUser
                        /\ IsAdminOf(resp'.user.id, resp'.franchiseId)
             IN  /\ resp'.status = 200 => permitted
                 /\ store' # store => permitted
                 /\ call'.op \in {"createStore", "deleteStore"} => permitted
                 /\ (resp'.user # NoUser /\ ~permitted)
                       => /\ resp'.status = 403
                          /\ store' = store
                          /\ call'.op = "none"
      ]_vars

\* C22 witness: a caller who is neither Admin nor admin of the franchise
\* asked to delete an existing store of it and was refused
C22_Witness ==
    /\ resp.route = "deleteStore" /\ resp.status = 403
    /\ resp.user # NoUser /\ ~HoldsAdmin(resp.user)
    /\ \E i \in 1..Len(store) :
          store[i].id = resp.storeId /\ store[i].franchiseId = resp.franchiseId

\* C24: GET /:userId gives the franchises of user U to U and to an Admin;
\* any other authenticated caller gets 200 with an empty list, and the
\* franchises of U are not read.
C24_UserFranchisesSelfOrAdmin ==
    (resp.route = "getUserFranchises" /\ resp.user # NoUser)
        => IF resp.user.id = resp.userId \/ HoldsAdmin(resp.user)
           THEN /\ resp.status = 200
                /\ call.op = "getUserFranchises"
                /\ {resp.body[i].id : i \in 1..Len(resp.body)}
                     = {franchise[k].id : k \in
                          {j \in 1..Len(franchise) :
                              IsAdminOf(resp.userId, franchise[j].id)}}
                /\ \A i, j \in 1..Len(resp.body) :
                      resp.body[i].id = resp.body[j].id => i = j
           ELSE /\ resp.status = 200
                /\ resp.body = <<>>
                /\ call.op = "none"

\* C24 witness: a caller without the Admin role asked for the franchises
\* of another user, who has one, and got the empty list
C24_Witness ==
    /\ resp.route = "getUserFranchises" /\ resp.status = 200
    /\ resp.user # NoUser /\ resp.user.id # resp.userId
    /\ ~HoldsAdmin(resp.user)
    /\ \E k \in 1..Len(franchise) : IsAdminOf(resp.userId, franchise[k].id)
    /\ resp.body = <<>>

\* C25: GET /api/franchise answers 200 with or without a caller; the admins
\* and the revenue of the stores are in the answer only for a caller who
\* holds the Admin role, everybody else gets the id and name of the stores.
C25_ListFranchisesDegrades ==
    resp.route = "getFranchises"
        => /\ resp.status = 200
           /\ Len(resp.body) = Len(franchise)
           /\ \A i \in 1..Len(resp.body) :
                 /\ resp.body[i].id = franchise[i].id
                 /\ IF resp.user # NoUser /\ HoldsAdmin(resp.user)
                    THEN /\ "admins" \in DOMAIN resp.body[i]
                         /\ \A k \in 1..Len(resp.body[i].stores) :
                               "totalRevenue" \in DOMAIN resp.body[i].stores[k]
                    ELSE /\ DOMAIN resp.body[i] = {"id", "name", "stores"}
                         /\ \A k \in 1..Len(resp.body[i].stores) :
                               DOMAIN resp.body[i].stores[k] = {"id", "name"}

\* C25 witness: the list was asked for without a token while a franchise
\* with an admin and a store exists
C25_Witness ==
    /\ resp.route = "getFranchises" /\ resp.token = NoToken
    /\ resp.status = 200
    /\ Len(resp.body) = 1 /\ Len(resp.body[1].stores) = 1
    /\ IsAdminOf(2, resp.body[1].id)

\* C31: the connections taken from the pool are exactly those of the
\* callbacks that run or wait for a nested connection (each is given back
\* once, whether the callback returned or threw), they never exceed
\* connectionLimit, and none is held when no operation is running.
C31_ReleasedOnEveryPath ==
    /\ pool.taken = InUse(pool)
    /\ pool.taken <= connectionLimit
    /\ Running(pool) = 0 => pool.taken = 0

\* C31 witness: the last operation running ended with a throwing callback
\* and no connection is held
C31_Witness ==
    /\ pool.last = "throws" /\ Running(pool) = 0 /\ pool.taken = 0

\* C32: initializeDatabase ends on every path and this.initialized becomes
\* resolved, never rejected, so a withConnection call gets past it; on a
\* new database the creation of the default admin waits for
\* this.initialized, is not waited for, and ends after initialization.
C32_InitializationEnds ==
    /\ [](boot.initialized \in {"pending", "resolved"})
    /\ <>[](boot.initialized = "resolved")
    /\ [](boot.admin \in {"started", "done", "failed"}
            => boot.initialized = "resolved")
    /\ [](boot.admin = "waiting" => <>(boot.admin \in {"done", "failed"}))
    /\ []((boot.pc = "resolved" /\ ~boot.failed /\ ~boot.dbExists)
            => boot.admin # "none")

\* C32 witness: on a new database the default admin is stored, after an
\* initialization that ended without error while a request waited for it
C32_Witness ==
    /\ boot.initialized = "resolved" /\ ~boot.failed /\ ~boot.dbExists
    /\ boot.admin = "done"
    /\ Len(user) = 1 /\ user[1].email = "a@jwt.com"
    /\ boot.waiting > 0

\* C33: every Franchisee assignment references a franchise that exists;
\* createFranchise adds Franchisee assignments for the franchise it creates
\* only, and deleteFranchise removes the assignments scoped to the deleted
\* franchise and leaves every other assignment (Diner, Admin, other
\* franchises) as it was.
C33_FranchiseeRefsExist ==
    [][ /\ \A k \in 1..Len(userRole') :
              userRole'[k].role = Role.Franchisee
                => \E i \in 1..Len(franchise') :
                      franchise'[i].id = userRole'[k].objectId
        /\ (call'.op = "createFranchise" /\ ~call'.threw)
              => /\ SubSeq(userRole', 1, Len(userRole)) = userRole
                 /\ \A k \in (Len(userRole) + 1)..Len(userRole') :
                       /\ userRole'[k].role = Role.Franchisee
                       /\ userRole'[k].objectId
                            = franchise'[Len(franchise')].id
        /\ (call'.op = "deleteFranchise" /\ ~call'.threw)
              => userRole' = SelectSeq(userRole, LAMBDA ur :
                                ~(/\ ur.role = Role.Franchisee
                                  /\ ur.objectId = call'.arg.franchiseId))
      ]_vars

\* C34: when an admin email of createFranchise matches no user, the call
\* throws and neither a franchise row nor a userRole row is written, also
\* when the admins listed before it are known.
C34_ValidateBeforeWrite ==
    [][ (/\ call'.op = "createFranchise"
         /\ \E a \in 1..Len(call'.arg.admins) :
               \A i \in 1..Len(user) : user[i].email # call'.arg.admins[a])
          => /\ call'.threw
             /\ call'.result.statusCode = 404
             /\ franchise' = franchise
             /\ userRole' = userRole
      ]_vars

\* C34 witness: createFranchise threw for a list whose first admin is a
\* user and whose second is not
C34_Witness ==
    /\ call.op = "createFranchise" /\ call.threw
    /\ Len(call.arg.admins) = 2
    /\ \E i \in 1..Len(user) : user[i].email = call.arg.admins[1]
    /\ \A i \in 1..Len(user) : user[i].email # call.arg.admins[2]
    /\ franchise = <<>>

\* C35: deleteFranchise removes the franchise, its stores and the role
\* assignments scoped to it together, or, when a statement fails, removes
\* nothing and throws 'unable to delete franchise' (500).
C35_DeleteAllOrNothing ==
    [][ call'.op = "deleteFranchise"
          => IF call'.threw
             THEN /\ store' = store /\ userRole' = userRole
                  /\ franchise' = franchise
                  /\ call'.result.message = "unable to delete franchise"
                  /\ call'.result.statusCode = 500
             ELSE /\ \A i \in 1..Len(franchise') :
                        franchise'[i].id # call'.arg.franchiseId
                  /\ \A i \in 1..Len(store') :
                        store'[i].franchiseId # call'.arg.franchiseId
                  /\ \A k \in 1..Len(userRole') :
                        userRole'[k].objectId # call'.arg.franchiseId
      ]_vars

\* C35 witness: the third DELETE failed for a franchise that has a store
\* and an admin; all three are still there
C35_Witness ==
    /\ call.op = "deleteFranchise" /\ call.threw /\ call.arg.failsAt = 3
    /\ \E i \in 1..Len(franchise) : franchise[i].id = call.arg.franchiseId
    /\ \E i \in 1..Len(store) : store[i].franchiseId = call.arg.franchiseId
    /\ \E k \in 1..Len(userRole) :
          userRole[k].objectId = call.arg.franchiseId

\* C36: when an item of an order references a menu id that does not exist,
\* addDinerOrder fails and leaves tables dinerOrder and orderItem as they
\* were: no order row, and none of the items, is persisted.
C36_OrderAllOrNothing ==
    [][ (/\ resp' # resp
         /\ resp'.route = "createOrder"
         /\ resp'.status = 500
         /\ resp'.message = "No ID found")
          => /\ dinerOrder' = dinerOrder
             /\ orderItem' = orderItem
      ]_vars

\* C37: every login or logout request whose response finished is counted
\* exactly once, as successful or as unsuccessful: it is in exactly one
\* report, or still in the counter the next report reads; no interleaving
\* of response completions and report ticks loses or repeats an attempt.
C37_CountedOnce ==
    /\ metrics.finished[1]
         = Reported("successful_auth_attempts")
             + metrics.succesfulAuthAttempts
    /\ metrics.finished[2]
         = Reported("unsuccessful_auth_attempts")
             + metrics.unsuccessfulAuthAttempts

\* C37 witness: a login finished with 200 before the first tick, a second
\* attempt arrived before that tick and failed after it; each is in one
\* of the two reports
C37_Witness ==
    /\ Len(metrics.reports) = 2
    /\ metrics.reports[1].http_requests_total = 2
    /\ metrics.reports[1].successful_auth_attempts = 1
    /\ metrics.reports[1].unsuccessful_auth_attempts = 0
    /\ metrics.reports[2].successful_auth_attempts = 0
    /\ metrics.reports[2].unsuccessful_auth_attempts = 1
    /\ metrics.finished = <<1, 1>>

====
